---- MODULE Spec2Model ----
(***************************************************************************)
(* A model of the numerical geometry engine of svg-gen: the dense matrix   *)
(* type, the perspective projector, the conic fitter and its reduction to  *)
(* standard form, the plane and polygon clipper and the arc converter.     *)
(*                                                                         *)
(* The library is a set of functions; each action below is one call of one *)
(* entry point on inputs drawn from bounded sets.  The state records the   *)
(* call (op), its arguments (args), what the call returned or threw (out)  *)
(* and the caller's objects after the call (heap), so that what a call     *)
(* does to the objects it was passed is visible.                           *)
(*                                                                         *)
(* Numbers.  A JavaScript number is modelled exactly, as an element        *)
(* (a + b*sqrt(2))/d of the field Q(sqrt 2) or one of the IEEE specials:   *)
(*     [a |-> a, b |-> b, d |-> d]   d > 0, gcd(a, b, d) = 1               *)
(*     [a |-> 1, b |-> 0, d |-> 0]   +Infinity                             *)
(*     [a |-> -1, b |-> 0, d |-> 0]  -Infinity                             *)
(*     [a |-> 0, b |-> 0, d |-> 0]   NaN                                   *)
(* sqrt(2) is needed because the ellipse is sampled at multiples of pi/4.  *)
(* Rounding error and the sign of zero are not modelled: a zero divisor is *)
(* taken as +0, which is what x - x yields in the code's divisions.        *)
(***************************************************************************)
EXTENDS Integers, Sequences, FiniteSets, TLC

VARIABLES op, args, out, heap

vars == <<op, args, out, heap>>

----------------------------------------------------------------------------
(* Integer helpers *)

IAbs(n) == IF n < 0 THEN -n ELSE n

ISgn(n) == IF n < 0 THEN -1 ELSE IF n > 0 THEN 1 ELSE 0

RECURSIVE GCD(_, _)
GCD(x, y) == IF y = 0 THEN x ELSE CHOOSE g \in {GCD(y, r) : r \in {x % y}} : TRUE

GCD3(x, y, z) == GCD(GCD(IAbs(x), IAbs(y)), IAbs(z))

\* the integer square root of n >= 0, by bisection on lo..hi
RECURSIVE ISqrtIn(_, _, _)
ISqrtIn(n, lo, hi) ==
    IF lo >= hi THEN lo
    ELSE CHOOSE r \in {IF mid <= n \div mid THEN ISqrtIn(n, mid, hi)
                       ELSE ISqrtIn(n, lo, mid - 1) :
                          mid \in {(lo + hi + 1) \div 2}} : TRUE

ISqrt(n) == IF n <= 0 THEN 0 ELSE ISqrtIn(n, 1, n)

IsSquare(n) == n >= 0 /\ ISqrt(n) * ISqrt(n) = n

----------------------------------------------------------------------------
(* Numbers: Q(sqrt 2) with the IEEE specials *)

QNaN == [a |-> 0, b |-> 0, d |-> 0]
QInf(s) == [a |-> s, b |-> 0, d |-> 0]

QIsNaN(x) == x.d = 0 /\ x.a = 0
QIsInf(x) == x.d = 0 /\ x.a # 0
QIsFinite(x) == x.d # 0

\* (a + b*sqrt 2)/d in lowest terms, d # 0.  Here and below an operand is
\* bound once, as the member of a singleton, before it is used
QNorm(a, b, d) ==
    CHOOSE q \in {[a |-> t[2] * (t[3] \div t[1]), b |-> t[2] * (t[4] \div t[1]),
                   d |-> t[2] * (t[5] \div t[1])] :
                      t \in {<<GCD3(a, b, d), IF d < 0 THEN -1 ELSE 1, a, b, d>>}} : TRUE

QInt(n) == [a |-> n, b |-> 0, d |-> 1]
QFrac(n, d) == QNorm(n, 0, d)
QZero == QInt(0)
QOne == QInt(1)

RECURSIVE GtRoot2(_, _)
\* p/q > sqrt 2 for integers p, q > 0, without squaring: with p = q + r and
\* 0 < r < q, 1 + r/q > sqrt 2 iff q/r < sqrt 2 + 1 iff (q - r)/r < sqrt 2
GtRoot2(p, q) ==
    IF p <= q THEN FALSE
    ELSE IF p >= 2 * q THEN TRUE
    ELSE \E u \in {2 * q - p}, v \in {p - q} : ~GtRoot2(u, v)

\* the sign of a + b*sqrt 2
SgnSurd(a, b) ==
    IF b = 0 THEN ISgn(a)
    ELSE IF a = 0 THEN ISgn(b)
    ELSE IF ISgn(a) = ISgn(b) THEN ISgn(a)
    ELSE IF a > 0 THEN (IF GtRoot2(a, -b) THEN 1 ELSE -1)
    ELSE (IF GtRoot2(-a, b) THEN -1 ELSE 1)

\* -1, 0, 1; the sign of NaN is taken as 0 and is never relied on
QSign(x) == CHOOSE s \in {IF u.d = 0 THEN u.a ELSE SgnSurd(u.a, u.b) : u \in {x}} : TRUE

QIsZero(x) == x.d # 0 /\ x.a = 0 /\ x.b = 0

QNeg(x) == CHOOSE n \in {[a |-> -u.a, b |-> -u.b, d |-> u.d] : u \in {x}} : TRUE

AddTerms(x, y, g) ==
    QNorm(x.a * (y.d \div g) + y.a * (x.d \div g),
          x.b * (y.d \div g) + y.b * (x.d \div g), x.d * (y.d \div g))

AddValues(x, y) ==
    IF x.d = 0 \/ y.d = 0
    THEN IF QIsNaN(x) \/ QIsNaN(y) THEN QNaN
         ELSE IF x.d = 0 /\ y.d = 0 THEN (IF x.a = y.a THEN x ELSE QNaN)
         ELSE IF x.d = 0 THEN x ELSE y
    ELSE CHOOSE sum \in {AddTerms(x, y, g) : g \in {GCD(x.d, y.d)}} : TRUE

QAdd(x, y) == CHOOSE sum \in {AddValues(u, v) : u \in {x}, v \in {y}} : TRUE

QSub(x, y) == QAdd(x, QNeg(y))

\* the product after cancelling g1 between x's numerator and y's denominator
\* and g2 between y's numerator and x's denominator
MulTerms(x, y, g1, g2) ==
    QNorm((x.a \div g1) * (y.a \div g2) + 2 * (x.b \div g1) * (y.b \div g2),
          (x.a \div g1) * (y.b \div g2) + (x.b \div g1) * (y.a \div g2),
          (x.d \div g2) * (y.d \div g1))

MulValues(x, y) ==
    IF x.d = 0 \/ y.d = 0
    THEN IF QIsNaN(x) \/ QIsNaN(y) \/ QIsZero(x) \/ QIsZero(y) THEN QNaN
         ELSE QInf(QSign(x) * QSign(y))
    ELSE CHOOSE prod \in {MulTerms(x, y, g1, g2) :
                             g1 \in {GCD3(x.a, x.b, y.d)},
                             g2 \in {GCD3(y.a, y.b, x.d)}} : TRUE

QMul(x, y) == CHOOSE prod \in {MulValues(u, v) : u \in {x}, v \in {y}} : TRUE

\* 1/x for finite x # 0: the conjugate over the norm a^2 - 2 b^2
InvValue(x) ==
    IF x.b = 0 THEN QNorm(x.d, 0, x.a)
    ELSE LET g == GCD(IAbs(x.a), IAbs(x.b))
             a == x.a \div g
             b == x.b \div g
             n == a * a - 2 * b * b
             h == GCD(x.d, g * IAbs(n))
         IN  QNorm(a * (x.d \div h), -(b * (x.d \div h)),
                   (g \div GCD(g, h)) * (n \div (h \div GCD(g, h))))

QInv(x) == CHOOSE inv \in {InvValue(u) : u \in {x}} : TRUE

DivValues(x, y) ==
    IF QIsNaN(x) \/ QIsNaN(y) THEN QNaN
    ELSE IF x.d = 0 THEN (IF y.d = 0 THEN QNaN
                          ELSE QInf(x.a * (IF QSign(y) < 0 THEN -1 ELSE 1)))
    ELSE IF y.d = 0 THEN QZero
    ELSE IF QIsZero(y) THEN (IF QIsZero(x) THEN QNaN ELSE QInf(QSign(x)))
    ELSE QMul(x, QInv(y))

QDiv(x, y) == CHOOSE quot \in {DivValues(u, v) : u \in {x}, v \in {y}} : TRUE

\* comparisons: false as soon as one side is NaN, as in IEEE
QLt(x, y) ==
    \E u \in {x}, v \in {y} : ~QIsNaN(u) /\ ~QIsNaN(v) /\ u # v /\ QSign(QSub(u, v)) < 0
QLe(x, y) ==
    \E u \in {x}, v \in {y} : ~QIsNaN(u) /\ ~QIsNaN(v) /\ (u = v \/ QSign(QSub(u, v)) < 0)
QGt(x, y) == QLt(y, x)
QGe(x, y) == QLe(y, x)
\* JavaScript ===
QEq(x, y) == ~QIsNaN(x) /\ ~QIsNaN(y) /\ x = y

QAbs(x) == CHOOSE abs \in {IF QSign(u) < 0 THEN QNeg(u) ELSE u : u \in {x}} : TRUE
QSq(x) == QMul(x, x)
QMax(x, y) == IF QIsNaN(x) \/ QIsNaN(y) THEN QNaN ELSE IF QLt(x, y) THEN y ELSE x
QMin(x, y) == IF QIsNaN(x) \/ QIsNaN(y) THEN QNaN ELSE IF QLt(y, x) THEN y ELSE x

\* Math.sqrt.  The root of a positive element of Q(sqrt 2) is computed exactly
\* when it lies in Q(sqrt 2): with x = (A + B sqrt 2)/d^2 and (u + v sqrt 2)^2 =
\* A + B sqrt 2, u^2 - 2 v^2 = +-n where n^2 = A^2 - 2 B^2.  Any other root is
\* kept as the symbolic value [surd |-> x], on which no arithmetic is defined.
SqrtParts(A, B) ==
    LET n2 == A * A - 2 * B * B
        n == ISqrt(n2)
        cand == {(A + n), (A - n)}
        good == {t \in cand : /\ n * n = n2
                              /\ t >= 0 /\ t % 2 = 0 /\ IsSquare(t \div 2)
                              /\ (A - t \div 2) >= 0 /\ (A - t \div 2) % 2 = 0
                              /\ IsSquare((A - t \div 2) \div 2)
                              /\ 2 * ISqrt(t \div 2) * ISqrt((A - t \div 2) \div 2) = IAbs(B)}
    IN  IF good = {} THEN <<>>
        ELSE LET t == CHOOSE t \in good : TRUE
                 u == ISqrt(t \div 2)
                 v == ISqrt((A - t \div 2) \div 2)
             IN  IF B >= 0 THEN <<u, v>>
                 ELSE IF SgnSurd(u, -v) > 0 THEN <<u, -v>> ELSE <<-u, v>>

\* the root of a positive rational a/d in lowest terms: sqrt a / sqrt d, or
\* sqrt(2a/d) / sqrt 2 when it is 2a/d that is a square
SqrtRational(x) ==
    LET g == GCD(2 * x.a, x.d)
        a2 == (2 * x.a) \div g
        d2 == x.d \div g
    IN  IF IsSquare(x.a) /\ IsSquare(x.d) THEN QNorm(ISqrt(x.a), 0, ISqrt(x.d))
        ELSE IF IsSquare(a2) /\ IsSquare(d2) THEN QNorm(0, ISqrt(a2), 2 * ISqrt(d2))
        ELSE [surd |-> x]

SqrtValue(x) ==
    IF QIsNaN(x) THEN QNaN
    ELSE IF x.d = 0 THEN (IF x.a > 0 THEN x ELSE QNaN)
    ELSE IF QSign(x) < 0 THEN QNaN
    ELSE IF QIsZero(x) THEN QZero
    ELSE IF x.b = 0 THEN SqrtRational(x)
    ELSE LET r == SqrtParts(x.a * x.d, x.b * x.d)
         IN  IF r = <<>> THEN [surd |-> x] ELSE QNorm(r[1], r[2], x.d)

QSqrt(x) == CHOOSE root \in {SqrtValue(u) : u \in {x}} : TRUE

\* Math.cos and Math.sin at k eighths of a turn (k * pi / 4)
CosE(k) ==
    LET r == k % 8
    IN  IF r = 0 THEN QOne
        ELSE IF r = 2 \/ r = 6 THEN QZero
        ELSE IF r = 4 THEN QInt(-1)
        ELSE IF r = 1 \/ r = 7 THEN QNorm(0, 1, 2)
        ELSE QNorm(0, -1, 2)

SinE(k) == CosE(k + 6)

----------------------------------------------------------------------------
(* What a call yields: a value, or a thrown error *)

\* JavaScript null and undefined
Null == [null |-> TRUE]
IsNull(v) == DOMAIN v = {"null"}

Ok(v) == [ok |-> TRUE, val |-> v]
Throw(kind, msg) == [ok |-> FALSE, err |-> kind, msg |-> msg]

----------------------------------------------------------------------------
(* Matrix: [m, n, rows], rows a sequence of m sequences of n numbers *)

RECURSIVE SumTo(_, _)
\* f[1] + ... + f[k], summed left to right from 0 as the loops do
SumTo(f, k) == IF k = 0 THEN QZero ELSE QAdd(SumTo(f, k - 1), f[k])

NewMatrix(m, n) == [m |-> m, n |-> n, rows |-> [i \in 1..m |-> [j \in 1..n |-> QZero]]]

MatrixFromRows(rows) == [m |-> Len(rows), n |-> Len(rows[1]), rows |-> rows]

\* new Matrix([Vector, ...]): each vector becomes a column
MatrixFromArrayOfVector(arr) ==
    [m |-> Len(arr[1]), n |-> Len(arr),
     rows |-> [i \in 1..Len(arr[1]) |-> [j \in 1..Len(arr) |-> arr[j][i]]]]

\* a plain array, as the record of its length and its items
ArrayOf(items) == [length |-> Len(items), items |-> items]

\* b instanceof Matrix, for a matrix or a plain array b
IsMatrix(b) == "rows" \in DOMAIN b

MultMatrixVector(M, v) ==
    IF M.n # v.length
    THEN Throw("Error", "Matrix columns must match vector length")
    ELSE Ok([i \in 1..M.m |-> SumTo([j \in 1..M.n |-> QMul(M.rows[i][j], v.items[j])], M.n)])

\* the triple loop of Mult: b[k] is undefined for k >= b.m, and reading
\* b[k][j] then throws a TypeError; rows of b beyond this.n are never read
MultMatrixMatrix(A, B) ==
    IF A.n > B.m
    THEN Throw("TypeError", "Cannot read properties of undefined")
    ELSE Ok([m |-> A.m, n |-> B.n,
             rows |-> [i \in 1..A.m |-> [j \in 1..B.n |->
                 SumTo([k \in 1..A.n |-> QMul(A.rows[i][k], B.rows[k][j])], A.n)]]])

Mult(A, b) == IF ~IsMatrix(b) THEN MultMatrixVector(A, b) ELSE MultMatrixMatrix(A, b)

Identity(n) ==
    [m |-> n, n |-> n,
     rows |-> [i \in 1..n |-> [j \in 1..n |-> IF i = j THEN QOne ELSE QZero]]]

\* the matrix as it is
Untransposed(A) == A

Transpose(A) ==
    [m |-> A.n, n |-> A.m, rows |-> [j \in 1..A.n |-> [i \in 1..A.m |-> A.rows[i][j]]]]

\* the value of a call that returned
Val(outcome) == outcome.val

\* Translate, for a square matrix and a vector no longer than its rows
Translate(M, opts) ==
    LET vec == opts.vec
        m == M.m
        I == Identity(m)
        transform == [I EXCEPT !.rows = [i \in 1..m |->
                        IF i <= Len(vec) THEN [I.rows[i] EXCEPT ![m] = vec[i]]
                        ELSE I.rows[i]]]
    IN  Val(Mult(transform, M))

\* axesMap, then [0, 1, 2].filter(i => i !== axes): the plane of the rotation
RotationAxes(axes) ==
    IF axes = "x" THEN <<2, 3>> ELSE IF axes = "y" THEN <<1, 3>> ELSE <<1, 2>>

\* Rotate, for a square matrix of 3 rows or more; the angle is given in eighths
\* of a turn and the center is Null when opts has none
Rotate(M, opts) ==
    LET axes == RotationAxes(opts.axes)
        m == M.m
        center == IF IsNull(opts.center) THEN [i \in 1..M.n |-> QZero] ELSE opts.center
        I == Identity(m)
        toOrigin == [I EXCEPT !.rows = [i \in 1..m |->
                        IF i <= M.n - 1 THEN [I.rows[i] EXCEPT ![m] = QNeg(center[i])]
                        ELSE I.rows[i]]]
        c == CosE(opts.angle)
        s == SinE(opts.angle)
        rotation == [I EXCEPT !.rows = [i \in 1..m |->
                        IF i = axes[1]
                        THEN [I.rows[i] EXCEPT ![axes[1]] = c, ![axes[2]] = QNeg(s)]
                        ELSE IF i = axes[2]
                        THEN [I.rows[i] EXCEPT ![axes[1]] = s, ![axes[2]] = c]
                        ELSE I.rows[i]]]
        fromOrigin == [I EXCEPT !.rows = [i \in 1..m |->
                        IF i <= M.n - 1 THEN [I.rows[i] EXCEPT ![m] = center[i]]
                        ELSE I.rows[i]]]
        rotationAboutCenter == Val(Mult(Val(Mult(fromOrigin, rotation)), toOrigin))
    IN  Val(Mult(rotationAboutCenter, M))

\* Array.prototype.reverse
Reverse(s) == [i \in 1..Len(s) |-> s[Len(s) + 1 - i]]

RECURSIVE ApplySteps(_, _, _)
\* the forEach of Transform over the steps i.. of the reversed list
ApplySteps(result, steps, i) ==
    IF i > Len(steps) THEN Ok(result)
    ELSE LET t == steps[i]
         IN  IF t.op = "Rotate" THEN ApplySteps(Rotate(result, t.args), steps, i + 1)
             ELSE IF t.op = "Translate" THEN ApplySteps(Translate(result, t.args), steps, i + 1)
             ELSE Throw("Error", "Unknown transformation operation")

\* Transform: what the call yields; the caller's list is left reversed (see
\* CallTransform)
Transform(M, transformation) == ApplySteps(M, Reverse(transformation), 1)

----------------------------------------------------------------------------
(* Perspective projector *)

Vec3(x, y, z) == [x |-> QInt(x), y |-> QInt(y), z |-> QInt(z)]

\* the projection with the scale turned over: (eye.z - z) / eye.z
ProjectionScaleInverted(eye, affinePoints) ==
    IF affinePoints.m # 4
    THEN Throw("Error", "Affine points matrix must have 4 rows.")
    ELSE Ok([j \in 1..affinePoints.n |->
            LET x == affinePoints.rows[1][j]
                y == affinePoints.rows[2][j]
                z == affinePoints.rows[3][j]
                scale == QDiv(QSub(eye.z, z), eye.z)
            IN  [x |-> QAdd(eye.x, QMul(scale, QSub(x, eye.x))),
                 y |-> QAdd(eye.y, QMul(scale, QSub(y, eye.y)))]])

\* the projection with a point at the height of the eye passed through as (x, y)
ProjectionGuarded(eye, affinePoints) ==
    IF affinePoints.m # 4
    THEN Throw("Error", "Affine points matrix must have 4 rows.")
    ELSE Ok([j \in 1..affinePoints.n |->
            LET x == affinePoints.rows[1][j]
                y == affinePoints.rows[2][j]
                z == affinePoints.rows[3][j]
                scale == IF QEq(z, eye.z) THEN QOne ELSE QDiv(eye.z, QSub(eye.z, z))
            IN  [x |-> QAdd(eye.x, QMul(scale, QSub(x, eye.x))),
                 y |-> QAdd(eye.y, QMul(scale, QSub(y, eye.y)))]])

PerspectiveXYProjection(eye, affinePoints) ==
    IF affinePoints.m # 4
    THEN Throw("Error", "Affine points matrix must have 4 rows.")
    ELSE Ok([j \in 1..affinePoints.n |->
            LET x == affinePoints.rows[1][j]
                y == affinePoints.rows[2][j]
                z == affinePoints.rows[3][j]
                scale == QDiv(eye.z, QSub(eye.z, z))
            IN  [x |-> QAdd(eye.x, QMul(scale, QSub(x, eye.x))),
                 y |-> QAdd(eye.y, QMul(scale, QSub(y, eye.y)))]])

\* PointsWithPerspective without its check of the transform's shape
PointsWithPerspectiveUnchecked(points, eye, transform) ==
    LET transformed == Mult(transform, points)
    IN  IF ~transformed.ok THEN transformed
        ELSE PerspectiveXYProjection(eye, transformed.val)

PointsWithPerspective(points, eye, transform) ==
    IF transform.m # 4 \/ transform.n # 4
    THEN Throw("Error", "Transform matrix must be 4x4.")
    ELSE LET transformed == Mult(transform, points)
         IN  IF ~transformed.ok THEN transformed
             ELSE PerspectiveXYProjection(eye, transformed.val)

PointWithPerspective(x, y, eye, transform) ==
    IF transform.m # 4 \/ transform.n # 4
    THEN Throw("Error", "Transform matrix must be 4x4.")
    ELSE LET point == MatrixFromArrayOfVector(<< <<x, y, QZero, QOne>> >>)
             transformed == Mult(transform, point)
             perspectivePoints == PerspectiveXYProjection(eye, transformed.val)
         IN  Ok(perspectivePoints.val[1])

----------------------------------------------------------------------------
(* Linear solver.  svd.js, which Matrix.prototype.SVD calls, is not among  *)
(* the sources; SVD is taken to return an exact decomposition, as the      *)
(* design states.  Matrix.SVDSolve then multiplies by the pseudo-inverse   *)
(* V S^+ U^T, so that Solve yields the least-squares solution of least     *)
(* norm.  That solution is computed here exactly, from the normal          *)
(* equations by Gauss-Jordan elimination.                                  *)

SwapRows(A, i, j) == [A EXCEPT ![i] = A[j], ![j] = A[i]]

\* row r scaled to a unit pivot in column c, then column c cleared elsewhere
Pivot(A, r, c) ==
    LET w == Len(A[r])
        piv == [k \in 1..w |-> QDiv(A[r][k], A[r][c])]
    IN  [i \in 1..Len(A) |->
            IF i = r THEN piv
            ELSE IF QIsZero(A[i][c]) THEN A[i]
            ELSE [k \in 1..w |-> QSub(A[i][k], QMul(A[i][c], piv[k]))]]

RECURSIVE GaussJordan(_, _, _, _, _)
\* reduced row echelon form of the n-column system A, from column c and row r on;
\* pivs lists the pivot columns found so far
GaussJordan(A, n, c, r, pivs) ==
    IF c > n \/ r > Len(A) THEN [A |-> A, pivs |-> pivs]
    ELSE LET cand == {i \in r..Len(A) : ~QIsZero(A[i][c])}
         IN  IF cand = {} THEN GaussJordan(A, n, c + 1, r, pivs)
             ELSE LET p == CHOOSE i \in cand : \A k \in cand : i <= k
                  IN  CHOOSE g \in {GaussJordan(B, n, c + 1, r + 1, Append(pivs, c)) :
                                       B \in {Pivot(SwapRows(A, r, p), r, c)}} : TRUE

\* the index of x in the sequence s of distinct values
IndexOf(s, x) == CHOOSE i \in 1..Len(s) : s[i] = x

\* the normal equations M^T M x = M^T b, as the rows of an augmented system
NormalEquations(M, b) ==
    [i \in 1..M.n |-> [j \in 1..(M.n + 1) |->
        IF j <= M.n
        THEN SumTo([k \in 1..M.m |-> QMul(M.rows[k][i], M.rows[k][j])], M.m)
        ELSE SumTo([k \in 1..M.m |-> QMul(M.rows[k][i], b[k])], M.m)]]

\* x less its component t along the columns of V
LessComponent(x, V, t) ==
    [j \in 1..V.m |-> QSub(x[j], SumTo([f \in 1..V.n |-> QMul(V.rows[j][f], t[f])], V.n))]

RECURSIVE LeastSquares(_, _)
\* the solution of least norm of the n-column system reduced to gj
FromEchelon(gj, n) ==
    LET pivs == gj.pivs
        pivSet == {pivs[i] : i \in 1..Len(pivs)}
        free == {j \in 1..n : j \notin pivSet}
        x0 == [j \in 1..n |-> IF j \in pivSet THEN gj.A[IndexOf(pivs, j)][n + 1] ELSE QZero]
    IN  IF free = {} THEN x0
        ELSE LET fs == CHOOSE q \in [1..Cardinality(free) -> free] :
                            \A i, j \in 1..Cardinality(free) : i < j => q[i] < q[j]
                 \* one null vector of M per free column, as the columns of V
                 V == [m |-> n, n |-> Cardinality(free),
                       rows |-> [j \in 1..n |-> [f \in 1..Cardinality(free) |->
                           IF j = fs[f] THEN QOne
                           ELSE IF j \in pivSet THEN QNeg(gj.A[IndexOf(pivs, j)][fs[f]])
                           ELSE QZero]]]
             IN  CHOOSE x \in {LessComponent(x0, V, t) : t \in {LeastSquares(V, x0)}} : TRUE

\* M.SVD() followed by Matrix.SVDSolve(svd, b): the x minimising |M x - b|,
\* and among those the one of least norm.  The system and its reduced form
\* are each bound once, as the member of a singleton.
LeastSquares(M, b) ==
    CHOOSE x \in {FromEchelon(gj, Len(gj.A)) :
                     gj \in {GaussJordan(N, Len(N), 1, 1, <<>>) :
                                N \in {NormalEquations(m, b) : m \in {M}}}} : TRUE

Solve(A, B) == LeastSquares(A, B)

----------------------------------------------------------------------------
(* Comparison with the tolerance 1e-10.  A positive v = (a + b sqrt 2)/d   *)
(* is at least 1/w for w = d (|a| + 2 |b|): its numerator times the        *)
(* conjugate is a non-zero integer.  So v < 1e-10 requires w > 10^10.      *)

BelowEps(v) ==
    IF QIsNaN(v) THEN FALSE
    ELSE IF QSign(v) <= 0 THEN TRUE
    ELSE IF v.d = 0 THEN FALSE
    ELSE LET w == v.d * (IAbs(v.a) + 2 * IAbs(v.b))
         IN  /\ w \div 100000 >= 100000
             /\ QLt(QMul(QMul(v, QInt(100000)), QInt(100000)), QOne)

AboveEps(v) == ~QIsNaN(v) /\ ~BelowEps(v)

\* r < 1e-10 for a root r = sqrt(x), exact or symbolic (then x < 1e-20)
RootBelowEps(r) ==
    IF DOMAIN r = {"surd"}
    THEN BelowEps(r.surd) /\ BelowEps(QMul(QMul(r.surd, QInt(100000)), QInt(100000)))
    ELSE BelowEps(r)

\* a root r = sqrt(x), exact or symbolic, squared back
RootSq(r) == IF DOMAIN r = {"surd"} THEN r.surd ELSE QSq(r)

\* c / r for a root r: exact when r is, else the symbolic quotient c / sqrt(x)
DivRoot(c, r) == IF DOMAIN r = {"surd"} THEN [num |-> c, rootOf |-> r.surd] ELSE QDiv(c, r)

----------------------------------------------------------------------------
(* Plane and polygon clipper *)

Cross3(u, v) ==
    << QSub(QMul(u[2], v[3]), QMul(u[3], v[2])),
       QSub(QMul(u[3], v[1]), QMul(u[1], v[3])),
       QSub(QMul(u[1], v[2]), QMul(u[2], v[1])) >>

Dot3(u, v) == QAdd(QAdd(QMul(u[1], v[1]), QMul(u[2], v[2])), QMul(u[3], v[3]))

\* the intersection with the point always sought in the plane z = 0, whatever
\* the direction of the line
LineAlwaysFromXY(plane1, plane2) ==
    LET n1 == plane1.normal
        n2 == plane2.normal
        cross == Cross3(n1, n2)
        directionMagnitude == QSqrt(Dot3(cross, cross))
        xy == Solve(MatrixFromRows(<< <<n1[1], n1[2]>>, <<n2[1], n2[2]>> >>),
                    <<Dot3(n1, plane1.point), Dot3(n2, plane2.point)>>)
    IN  IF RootBelowEps(directionMagnitude) THEN Null
        ELSE [direction |-> [i \in 1..3 |-> DivRoot(cross[i], directionMagnitude)],
              point |-> <<xy[1], xy[2], QZero>>]

LineFromIntersectionOfPlanes(plane1, plane2) ==
    LET n1 == plane1.normal
        n2 == plane2.normal
        cross == Cross3(n1, n2)
        directionMagnitude == QSqrt(Dot3(cross, cross))
        d1 == Dot3(n1, plane1.point)
        d2 == Dot3(n2, plane2.point)
        constants == <<d1, d2>>
    IN  IF RootBelowEps(directionMagnitude)
        THEN Null
        ELSE LET direction == [i \in 1..3 |-> DivRoot(cross[i], directionMagnitude)]
             IN  IF AboveEps(QAbs(cross[3]))
                 THEN LET xy == Solve(MatrixFromRows(<< <<n1[1], n1[2]>>, <<n2[1], n2[2]>> >>),
                                      constants)
                      IN  [direction |-> direction, point |-> <<xy[1], xy[2], QZero>>]
                 ELSE IF AboveEps(QAbs(cross[2]))
                 THEN LET xz == Solve(MatrixFromRows(<< <<n1[1], n1[3]>>, <<n2[1], n2[3]>> >>),
                                      constants)
                      IN  [direction |-> direction, point |-> <<xz[1], QZero, xz[2]>>]
                 ELSE LET yz == Solve(MatrixFromRows(<< <<n1[2], n1[3]>>, <<n2[2], n2[3]>> >>),
                                      constants)
                      IN  [direction |-> direction, point |-> <<QZero, yz[1], yz[2]>>]

PointFromIntersectionOfLinesInPlane(l0, l1) ==
    LET a1 == QSub(l0.p1.y, l0.p0.y)
        b1 == QSub(l0.p0.x, l0.p1.x)
        c1 == QAdd(QMul(a1, l0.p0.x), QMul(b1, l0.p0.y))
        a2 == QSub(l1.p1.y, l1.p0.y)
        b2 == QSub(l1.p0.x, l1.p1.x)
        c2 == QAdd(QMul(a2, l1.p0.x), QMul(b2, l1.p0.y))
        determinant == QSub(QMul(a1, b2), QMul(a2, b1))
    IN  IF BelowEps(QAbs(determinant)) THEN Null
        ELSE LET x == QDiv(QSub(QMul(b2, c1), QMul(b1, c2)), determinant)
                 y == QDiv(QSub(QMul(a1, c2), QMul(a2, c1)), determinant)
                 l == QDiv(QAdd(QMul(QSub(x, l1.p0.x), QSub(l1.p1.x, l1.p0.x)),
                                QMul(QSub(y, l1.p0.y), QSub(l1.p1.y, l1.p0.y))),
                           QAdd(QSq(QSub(l1.p1.x, l1.p0.x)), QSq(QSub(l1.p1.y, l1.p0.y))))
             IN  [point |-> [x |-> x, y |-> y], l |-> l]

SideOfPointFromLine(p0, p1, point) ==
    LET value == QSub(QMul(QSub(p1.x, p0.x), QSub(point.y, p0.y)),
                      QMul(QSub(p1.y, p0.y), QSub(point.x, p0.x)))
    IN  IF QLt(value, QZero) THEN -1 ELSE IF QGt(value, QZero) THEN 1 ELSE 0

\* where Math.atan2(y, x) lies in (-pi, pi]: below the x axis, 0, above, pi
AngleBand(y, x) ==
    IF QSign(y) < 0 THEN 0
    ELSE IF QSign(y) > 0 THEN 2
    ELSE IF QSign(x) >= 0 THEN 1 ELSE 3

\* the sign of Math.atan2(ay, ax) - Math.atan2(by, bx); within one open half
\* plane the angles are ordered by the cross product
AngleCmp(ay, ax, by, bx) ==
    LET ba == AngleBand(ay, ax)
        bb == AngleBand(by, bx)
    IN  IF ba # bb THEN (IF ba < bb THEN -1 ELSE 1)
        ELSE IF ba = 1 \/ ba = 3 THEN 0
        ELSE QSign(QSub(QMul(bx, ay), QMul(by, ax)))

\* the comparator of the sort: the difference of the angles about c
ByAngle(a, b, c) ==
    AngleCmp(QSub(a.y, c.y), QSub(a.x, c.x), QSub(b.y, c.y), QSub(b.x, c.x))

RECURSIVE InsertSorted(_, _, _)
\* x placed after every element of the sorted sequence s that is not greater
InsertSorted(s, x, c) ==
    IF s = <<>> THEN <<x>>
    ELSE IF ByAngle(s[Len(s)], x, c) <= 0 THEN Append(s, x)
    ELSE Append(InsertSorted(SubSeq(s, 1, Len(s) - 1), x, c), s[Len(s)])

RECURSIVE SortByAngle(_, _)
\* Array.prototype.sort under ByAngle: a stable sort
SortByAngle(s, c) ==
    IF s = <<>> THEN <<>>
    ELSE InsertSorted(SortByAngle(SubSeq(s, 1, Len(s) - 1), c), s[Len(s)], c)

RECURSIVE ClipLoop(_, _, _, _, _)
\* the points pushed for the vertices i..poly.length of the loop
ClipLoop(p0, p1, sideOfSidePoint, poly, i) ==
    IF i > Len(poly) THEN <<>>
    ELSE LET current == poly[i]
             next == poly[(i % Len(poly)) + 1]
             currentSide == SideOfPointFromLine(p0, p1, current)
             kept == IF currentSide * sideOfSidePoint >= 0 THEN <<current>> ELSE <<>>
             intersection == PointFromIntersectionOfLinesInPlane(
                                 [p0 |-> p0, p1 |-> p1], [p0 |-> current, p1 |-> next])
             hit == IF ~IsNull(intersection) /\ QGe(intersection.l, QZero)
                       /\ QLe(intersection.l, QOne)
                    THEN <<intersection.point>> ELSE <<>>
         IN  kept \o hit \o ClipLoop(p0, p1, sideOfSidePoint, poly, i + 1)

\* the clip without its final sort: the points in the order the loop pushed them
PolygonUnsorted(p0, p1, sideOfSidePoint, poly) == ClipLoop(p0, p1, sideOfSidePoint, poly, 1)

\* result.reduce: the sum of the points of result, each divided by its length
ReduceCentroid(result) ==
    [x |-> SumTo([i \in 1..Len(result) |-> QDiv(result[i].x, QInt(Len(result)))], Len(result)),
     y |-> SumTo([i \in 1..Len(result) |-> QDiv(result[i].y, QInt(Len(result)))], Len(result))]

\* result sorted about its centroid, which is bound once, as the member of a
\* singleton
SortAboutCentroid(result) ==
    CHOOSE sorted \in {SortByAngle(result, centroid) :
                          centroid \in {ReduceCentroid(result)}} : TRUE

PolygonFromLineIntersectionPolygon(p0, p1, sideOfSidePoint, poly) ==
    CHOOSE sorted \in {SortAboutCentroid(result) :
                          result \in {ClipLoop(p0, p1, sideOfSidePoint, poly, 1)}} : TRUE

----------------------------------------------------------------------------
(* Algebra *)

\* a value the number model cannot hold: tag names the expression, of its parts
Opaque(tag, of) == [opaque |-> tag, of |-> of]
IsOpaque(v) == DOMAIN v = {"opaque", "of"}

\* ret.sort((a, b) => a - b) on two numbers
SortPair(x1, x2) == IF QGt(x1, x2) THEN <<x2, x1>> ELSE <<x1, x2>>

\* QuadraticRoots: <<>> without real roots, else the two roots ascending.  With
\* an irrational root of the discriminant the roots are opaque.
QuadraticRoots(a, b, c, assumeRealRoots) ==
    LET d0 == QSub(QSq(b), QMul(QInt(4), QMul(a, c)))
        discriminant == IF QLt(d0, QZero) /\ assumeRealRoots THEN QZero ELSE d0
        sqrtDiscriminant == QSqrt(discriminant)
    IN  IF QLt(d0, QZero) /\ ~assumeRealRoots THEN <<>>
        ELSE IF DOMAIN sqrtDiscriminant = {"surd"}
        THEN <<Opaque("smallerRoot", <<a, b, c>>), Opaque("largerRoot", <<a, b, c>>)>>
        ELSE IF QGe(b, QZero)
        THEN SortPair(QDiv(QSub(QNeg(b), sqrtDiscriminant), QMul(QInt(2), a)),
                      QDiv(QMul(QInt(2), c), QSub(QNeg(b), sqrtDiscriminant)))
        ELSE SortPair(QDiv(QMul(QInt(2), c), QAdd(QNeg(b), sqrtDiscriminant)),
                      QDiv(QAdd(QNeg(b), sqrtDiscriminant), QMul(QInt(2), a)))

\* det, for the 2x2 and 3x3 matrices it is called on
det(M) ==
    LET e(i, j) == M.rows[i][j]
    IN  IF M.m = 2
        THEN QSub(QMul(e(1, 1), e(2, 2)), QMul(e(1, 2), e(2, 1)))
        ELSE QSub(QSub(QSub(QAdd(QAdd(QMul(QMul(e(1, 1), e(2, 2)), e(3, 3)),
                                      QMul(QMul(e(1, 2), e(2, 3)), e(3, 1))),
                                 QMul(QMul(e(1, 3), e(2, 1)), e(3, 2))),
                            QMul(QMul(e(1, 3), e(2, 2)), e(3, 1))),
                       QMul(QMul(e(1, 1), e(2, 3)), e(3, 2))),
                  QMul(QMul(e(1, 2), e(2, 1)), e(3, 3)))

----------------------------------------------------------------------------
(* Best-fit segment *)

RECURSIVE MaxOf(_, _)
\* Math.max of s[1..k]
MaxOf(s, k) == IF k = 1 THEN s[1] ELSE QMax(MaxOf(s, k - 1), s[k])

RECURSIVE MinOf(_, _)
\* Math.min of s[1..k]
MinOf(s, k) == IF k = 1 THEN s[1] ELSE QMin(MinOf(s, k - 1), s[k])

\* the largest perpendicularDistance of the points from the line; the distances
\* share a denominator, so the largest has the largest numerator
MaxDistance(points, line) ==
    LET n == Len(points)
    IN  IF QEq(line.x0, line.x1)
        THEN MaxOf([i \in 1..n |-> QAbs(QSub(points[i].x, line.x0))], n)
        ELSE IF QEq(line.y0, line.y1)
        THEN MaxOf([i \in 1..n |-> QAbs(QSub(points[i].y, line.y0))], n)
        ELSE LET dy == QSub(line.y1, line.y0)
                 dx == QSub(line.x1, line.x0)
                 numerator == [i \in 1..n |->
                     QAbs(QSub(QAdd(QSub(QMul(dy, points[i].x), QMul(dx, points[i].y)),
                                    QMul(line.x1, line.y0)),
                               QMul(line.y1, line.x0)))]
                 denominator == QSqrt(QAdd(QSq(dy), QSq(dx)))
             IN  DivRoot(MaxOf(numerator, n), denominator)

\* the square of a distance, exact or a quotient by a root
DistanceSq(e) ==
    IF DOMAIN e = {"num", "rootOf"} THEN QDiv(QSq(e.num), e.rootOf) ELSE QSq(e)

\* e1 <= e2 and e1 < e2 for distances, which are not negative
DistanceLe(e1, e2) == QLe(DistanceSq(e1), DistanceSq(e2))
DistanceLt(e1, e2) == QLt(DistanceSq(e1), DistanceSq(e2))

\* the first diagonal of the bounding box with its error, whatever the error
\* of the second
FirstDiagonalSegment(points) ==
    IF Len(points) < 2
    THEN Throw("Error", "At least two points are required to calculate a segment.")
    ELSE LET n == Len(points)
             diagonal1 == [x0 |-> MinOf([i \in 1..n |-> points[i].x], n),
                           y0 |-> MinOf([i \in 1..n |-> points[i].y], n),
                           x1 |-> MaxOf([i \in 1..n |-> points[i].x], n),
                           y1 |-> MaxOf([i \in 1..n |-> points[i].y], n)]
         IN  Ok([segment |-> diagonal1, errorSize |-> MaxDistance(points, diagonal1)])

SegmentFromPoints(points) ==
    IF Len(points) < 2
    THEN Throw("Error", "At least two points are required to calculate a segment.")
    ELSE LET n == Len(points)
             xMin == MinOf([i \in 1..n |-> points[i].x], n)
             xMax == MaxOf([i \in 1..n |-> points[i].x], n)
             yMin == MinOf([i \in 1..n |-> points[i].y], n)
             yMax == MaxOf([i \in 1..n |-> points[i].y], n)
             diagonal1 == [x0 |-> xMin, y0 |-> yMin, x1 |-> xMax, y1 |-> yMax]
             diagonal2 == [x0 |-> xMin, y0 |-> yMax, x1 |-> xMax, y1 |-> yMin]
             errorSize1 == MaxDistance(points, diagonal1)
             errorSize2 == MaxDistance(points, diagonal2)
         IN  IF DistanceLe(errorSize1, errorSize2)
             THEN Ok([segment |-> diagonal1, errorSize |-> errorSize1])
             ELSE Ok([segment |-> diagonal2, errorSize |-> errorSize2])

----------------------------------------------------------------------------
(* Conic fitter *)

\* EllipseFromPoints: new Matrix([]) reads arr[0].length of an empty array
EllipseFromPoints(points) ==
    IF Len(points) = 0
    THEN Throw("TypeError", "Cannot read properties of undefined")
    ELSE LET matrixRows == [i \in 1..Len(points) |->
                 <<QSq(points[i].x), QMul(points[i].x, points[i].y), QSq(points[i].y),
                   points[i].x, points[i].y>>]
             matrix == MatrixFromRows(matrixRows)
         IN  CHOOSE r \in {Ok([A |-> solution[1], B |-> solution[2], C |-> solution[3],
                               D |-> solution[4], E |-> solution[5]]) :
                    solution \in {LeastSquares(matrix, [i \in 1..Len(points) |-> QOne])}} :
                 TRUE

\* 0.5 * Math.atan2(y, x), kept by the arguments of atan2
HalfAtan2(y, x) == [halfAtan2 |-> <<y, x>>]

\* Math.sqrt(K / l) for a root l of QuadraticRoots
RadiusFrom(K, l) ==
    IF IsOpaque(l) THEN Opaque("sqrtOfQuotient", <<K, l>>) ELSE QSqrt(QDiv(K, l))

EllipseStandardForm(coefficients) ==
    LET A == coefficients.A
        B == coefficients.B
        C == coefficients.C
        D == coefficients.D
        E == coefficients.E
        F == QInt(-1)
        two == QInt(2)
        AQ == MatrixFromRows(<< <<A, QDiv(B, two), QDiv(D, two)>>,
                                <<QDiv(B, two), C, QDiv(E, two)>>,
                                <<QDiv(D, two), QDiv(E, two), F>> >>)
        A33 == MatrixFromRows(<< <<A, QDiv(B, two)>>, <<QDiv(B, two), C>> >>)
        d0 == QSub(QSq(B), QMul(QMul(QInt(4), A), C))
        b == QAdd(A, C)
        c == QSub(QMul(A, C), QSq(QDiv(B, two)))
        l == QuadraticRoots(QOne, QNeg(b), c, TRUE)
        x0 == QDiv(QSub(QMul(QMul(two, C), D), QMul(B, E)), d0)
        y0 == QDiv(QSub(QMul(QMul(two, A), E), QMul(B, D)), d0)
        theta == HalfAtan2(QNeg(B), QSub(C, A))
        K == QNeg(QDiv(det(AQ), det(A33)))
    IN  [cx |-> x0, cy |-> y0, rx |-> RadiusFrom(K, l[1]), ry |-> RadiusFrom(K, l[2]),
         theta |-> theta]

\* the 8 sample points, one column each
SamplePoints(cx, cy, rx, ry) ==
    MatrixFromArrayOfVector([i \in 1..8 |->
        <<QAdd(cx, QMul(rx, CosE(i - 1))), QAdd(cy, QMul(ry, SinE(i - 1))), QZero, QOne>>])

\* the part of EllipseWithPerspective that follows the projection
EllipseOfProjection(perspectivePoints) ==
    LET line == SegmentFromPoints(perspectivePoints)
    IN  CHOOSE r \in {[ellipse |-> EllipseStandardForm(standard), line |-> Val(line),
                       perspectivePoints |-> perspectivePoints] :
                         standard \in {Val(EllipseFromPoints(perspectivePoints))}} : TRUE

\* the projected points are bound once, as the member of a singleton
EllipseWithPerspective(cx, cy, rx, ry, eye, transform) ==
    IF transform.m # 4 \/ transform.n # 4
    THEN Throw("Error", "Transform matrix must be 4x4.")
    ELSE LET points == SamplePoints(cx, cy, rx, ry)
             transformed == Mult(transform, points)
         IN  Ok(CHOOSE r \in {EllipseOfProjection(perspectivePoints) :
                    perspectivePoints \in
                        {Val(PerspectiveXYProjection(eye, Val(transformed)))}} : TRUE)

----------------------------------------------------------------------------
(* Calls of the clipper.  A call is made once on the arguments drawn by    *)
(* the initial state; out lists what the calls made so far yielded.        *)

MaxCoord == 1

Point2(i, j) == [x |-> QInt(i), y |-> QInt(j)]

GridPoints == {Point2(i, j) : i \in 0..MaxCoord, j \in 0..MaxCoord}

\* the sign of the turn a -> b -> c: 1 to the left, -1 to the right
Turn(a, b, c) ==
    QSign(QSub(QMul(QSub(b.x, a.x), QSub(c.y, b.y)), QMul(QSub(b.y, a.y), QSub(c.x, b.x))))

\* every corner of poly turns the same way
Convex(poly) ==
    LET n == Len(poly)
        t == Turn(poly[1], poly[2], poly[3])
    IN  /\ t # 0
        /\ \A i \in 1..n : Turn(poly[i], poly[(i % n) + 1], poly[((i + 1) % n) + 1]) = t

\* the square of the design's example and the line x = 2 through it
ExampleSquare == <<Point2(0, 0), Point2(4, 0), Point2(4, 4), Point2(0, 4)>>
ExampleLine == [p0 |-> Point2(2, 0), p1 |-> Point2(2, 4)]

Polygons ==
    {poly \in (GridPoints \X GridPoints \X GridPoints)
              \cup (GridPoints \X GridPoints \X GridPoints \X GridPoints) : Convex(poly)}
        \cup {ExampleSquare}

\* the lines y = c, x = c and x - y = c at the half-integer offsets c that can
\* meet the grid
ClipLines ==
    {[p0 |-> [x |-> QZero, y |-> QFrac(c, 2)], p1 |-> [x |-> QOne, y |-> QFrac(c, 2)]] :
        c \in 0..(2 * MaxCoord)}
    \cup {[p0 |-> [x |-> QFrac(c, 2), y |-> QZero], p1 |-> [x |-> QFrac(c, 2), y |-> QOne]] :
        c \in 0..(2 * MaxCoord)}
    \cup {[p0 |-> [x |-> QFrac(c, 2), y |-> QZero], p1 |-> [x |-> QFrac(c + 2, 2), y |-> QOne]] :
        c \in (-2 * MaxCoord)..(2 * MaxCoord)}
    \cup {ExampleLine}

InitPolygonFromLineIntersectionPolygon ==
    \E poly \in Polygons, line \in ClipLines, sideOfSidePoint \in {-1, 1} :
        /\ op = "PolygonFromLineIntersectionPolygon"
        /\ args = [p0 |-> line.p0, p1 |-> line.p1,
                   sideOfSidePoint |-> sideOfSidePoint, poly |-> poly]
        /\ out = <<>>
        /\ heap = <<>>

CallPolygonFromLineIntersectionPolygon ==
    /\ op = "PolygonFromLineIntersectionPolygon"
    /\ out = <<>>
    /\ out' = <<Ok(PolygonFromLineIntersectionPolygon(args.p0, args.p1,
                                                      args.sideOfSidePoint, args.poly))>>
    /\ UNCHANGED <<op, args, heap>>

SpecClip ==
    InitPolygonFromLineIntersectionPolygon /\ [][CallPolygonFromLineIntersectionPolygon]_vars

MaxNormal == 1

Normals == {<<QInt(i), QInt(j), QInt(k)>> :
                i \in -MaxNormal..MaxNormal, j \in -MaxNormal..MaxNormal,
                k \in -MaxNormal..MaxNormal}

PlanePoints == {<<QInt(0), QInt(0), QInt(0)>>, <<QInt(1), QInt(2), QInt(3)>>}

InitLineFromIntersectionOfPlanes ==
    \E n1 \in Normals, n2 \in Normals, q1 \in PlanePoints, q2 \in PlanePoints :
        /\ op = "LineFromIntersectionOfPlanes"
        /\ args = [plane1 |-> [point |-> q1, normal |-> n1],
                   plane2 |-> [point |-> q2, normal |-> n2]]
        /\ out = <<>>
        /\ heap = <<>>

CallLineFromIntersectionOfPlanes ==
    /\ op = "LineFromIntersectionOfPlanes"
    /\ out = <<>>
    /\ out' = <<Ok(LineFromIntersectionOfPlanes(args.plane1, args.plane2))>>
    /\ UNCHANGED <<op, args, heap>>

SpecPlanes ==
    InitLineFromIntersectionOfPlanes /\ [][CallLineFromIntersectionOfPlanes]_vars

----------------------------------------------------------------------------
(* Properties of the clipper *)

Range(s) == {s[i] : i \in 1..Len(s)}

\* the mean of the points of r
Centroid(r) ==
    [x |-> QDiv(SumTo([i \in 1..Len(r) |-> r[i].x], Len(r)), QInt(Len(r))),
     y |-> QDiv(SumTo([i \in 1..Len(r) |-> r[i].y], Len(r)), QInt(Len(r)))]

\* q lies on the segment from a to b
OnSegment(q, a, b) ==
    /\ Turn(a, b, q) = 0
    /\ QSign(QAdd(QMul(QSub(q.x, a.x), QSub(q.x, b.x)),
                  QMul(QSub(q.y, a.y), QSub(q.y, b.y)))) <= 0

OnEdge(q, poly) ==
    \E i \in 1..Len(poly) : OnSegment(q, poly[i], poly[(i % Len(poly)) + 1])

ClipCalled == op = "PolygonFromLineIntersectionPolygon" /\ Len(out) = 1

\* the line has vertices of the polygon on both sides and none on it
CrossesClear ==
    {SideOfPointFromLine(args.p0, args.p1, args.poly[i]) : i \in 1..Len(args.poly)} = {-1, 1}

ExampleResult == <<Point2(0, 0), Point2(2, 0), Point2(2, 4), Point2(0, 4)>>

ExampleCall ==
    /\ args.poly = ExampleSquare
    /\ args.p0 = ExampleLine.p0 /\ args.p1 = ExampleLine.p1
    /\ args.sideOfSidePoint = 1

\* C3: for a convex polygon and a line that crosses it through no vertex, the
\* result is the vertices on the chosen side and two further points, each on the
\* line and on an edge of the polygon, in ascending angle about their centroid,
\* which is counter-clockwise; the square of side 4 cut by x = 2 on side +1
\* gives (0,0), (2,0), (2,4), (0,4).
C3_ClipKeepsSideAndCuts ==
    (ClipCalled /\ CrossesClear) =>
        LET r == out[1].val
            n == Len(r)
            kept == {v \in Range(args.poly) :
                        SideOfPointFromLine(args.p0, args.p1, v) = args.sideOfSidePoint}
            cuts == Range(r) \ kept
            c == Centroid(r)
        IN  /\ out[1].ok
            /\ kept \subseteq Range(r)
            /\ Range(r) \cap Range(args.poly) = kept
            /\ Cardinality(cuts) = 2
            /\ n = Cardinality(kept) + 2
            /\ \A q \in cuts : /\ SideOfPointFromLine(args.p0, args.p1, q) = 0
                               /\ OnEdge(q, args.poly)
            /\ \A i \in 1..(n - 1) : ByAngle(r[i], r[i + 1], c) < 0
            /\ \A i \in 1..n : Turn(r[i], r[(i % n) + 1], r[((i + 1) % n) + 1]) = 1
            /\ ExampleCall => r = ExampleResult

\* a clockwise polygon with one corner cut off: five points, put in order
C3_Witness ==
    /\ ClipCalled /\ CrossesClear
    /\ Turn(args.poly[1], args.poly[2], args.poly[3]) = -1
    /\ Len(out[1].val) = 5

PlanesCalled == op = "LineFromIntersectionOfPlanes" /\ Len(out) = 1

\* the components of a direction c / |cross|, before the division
Numerators(direction) ==
    [i \in 1..3 |-> IF DOMAIN direction[i] = {"num", "rootOf"}
                    THEN direction[i].num ELSE direction[i]]

\* the direction has length 1
UnitLength(direction) ==
    IF DOMAIN direction[1] = {"num", "rootOf"}
    THEN /\ \A i \in 1..3 : direction[i].rootOf = direction[1].rootOf
         /\ Dot3(Numerators(direction), Numerators(direction)) = direction[1].rootOf
    ELSE Dot3(direction, direction) = QOne

----------------------------------------------------------------------------
(* Calls of the projector *)

MaxProj == 1

Eyes == {[x |-> QInt(ex), y |-> QInt(ey), z |-> QInt(ez)] :
            ex \in {0, 1}, ey \in {0, 1}, ez \in {-1, 0, 1, 2}}

\* the eyes the transformed calls are made with
TwoEyes == {[x |-> QZero, y |-> QZero, z |-> QInt(2)],
            [x |-> QOne, y |-> QZero, z |-> QInt(-1)]}

ProjColumns == {<<QInt(i), QInt(j), QInt(k)>> :
                    i \in 0..MaxProj, j \in 0..MaxProj, k \in 0..MaxProj}

\* one or two points
ColumnLists == {<<c>> : c \in ProjColumns} \cup (ProjColumns \X ProjColumns)

\* the matrix of m rows whose columns are the points (x, y, z, 1, 0, ...)
PointsMatrix(cols, m) ==
    [m |-> m, n |-> Len(cols),
     rows |-> [i \in 1..m |-> [j \in 1..Len(cols) |->
                IF i <= 3 THEN cols[j][i] ELSE IF i = 4 THEN QOne ELSE QZero]]]

RowCounts == {3, 4, 5}

\* well-shaped and ill-shaped transforms
Transforms ==
    {Identity(4),
     Translate(Identity(4), [vec |-> <<QInt(1), QInt(0), QInt(1)>>]),
     Rotate(Identity(4), [axes |-> "x", angle |-> 2, center |-> Null]),
     Rotate(Identity(4), [axes |-> "z", angle |-> 1, center |-> Null]),
     Identity(3), NewMatrix(4, 3), NewMatrix(3, 4), Identity(5)}

InitPerspectiveXYProjection ==
    \E eye \in Eyes, cols \in ColumnLists, m \in RowCounts :
        /\ op = "PerspectiveXYProjection"
        /\ args = [eye |-> eye, affinePoints |-> PointsMatrix(cols, m)]
        /\ out = <<>>
        /\ heap = <<>>

CallPerspectiveXYProjection ==
    /\ op = "PerspectiveXYProjection"
    /\ out = <<>>
    /\ out' = <<PerspectiveXYProjection(args.eye, args.affinePoints)>>
    /\ UNCHANGED <<op, args, heap>>

InitPointWithPerspective ==
    \E x \in 0..MaxProj, y \in 0..MaxProj, eye \in Eyes, transform \in Transforms :
        /\ op = "PointWithPerspective"
        /\ args = [x |-> QInt(x), y |-> QInt(y), eye |-> eye, transform |-> transform]
        /\ out = <<>>
        /\ heap = <<>>

CallPointWithPerspective ==
    /\ op = "PointWithPerspective"
    /\ out = <<>>
    /\ out' = <<PointWithPerspective(args.x, args.y, args.eye, args.transform)>>
    /\ UNCHANGED <<op, args, heap>>

InitPointsWithPerspective ==
    \E cols \in ColumnLists, m \in RowCounts, eye \in TwoEyes, transform \in Transforms :
        /\ op = "PointsWithPerspective"
        /\ args = [points |-> PointsMatrix(cols, m), eye |-> eye, transform |-> transform]
        /\ out = <<>>
        /\ heap = <<>>

CallPointsWithPerspective ==
    /\ op = "PointsWithPerspective"
    /\ out = <<>>
    /\ out' = <<PointsWithPerspective(args.points, args.eye, args.transform)>>
    /\ UNCHANGED <<op, args, heap>>

EllipseCentres == {Point2(0, 0), Point2(0, 1), Point2(1, 0), Point2(1, 1)}

EllipseRadii == {QFrac(1, 2), QOne, QInt(2)}

\* eyes on the z-axis, one of them in the plane z = 0 of the ellipse
AxisEyes == {Vec3(0, 0, 2), Vec3(0, 0, -1), Vec3(0, 0, 0)}

\* the transforms that are not 4x4
MisshapenTransforms == {Identity(3), NewMatrix(4, 3), NewMatrix(3, 4), Identity(5)}

\* the eye and the transform an ellipse is projected under: the plane of the
\* ellipse left in place or moved along z to z = 1, or a transform that is
\* not 4x4
EllipseViews ==
    ((TwoEyes \cup AxisEyes) \X {Identity(4)})
        \cup (AxisEyes \X {Translate(Identity(4), [vec |-> <<QZero, QZero, QOne>>])})
        \cup (TwoEyes \X MisshapenTransforms)

InitEllipseWithPerspective ==
    \E c \in EllipseCentres, rx \in EllipseRadii, ry \in EllipseRadii, view \in EllipseViews :
        /\ op = "EllipseWithPerspective"
        /\ args = [cx |-> c.x, cy |-> c.y, rx |-> rx, ry |-> ry,
                   eye |-> view[1], transform |-> view[2]]
        /\ out = <<>>
        /\ heap = <<>>

CallEllipseWithPerspective ==
    /\ op = "EllipseWithPerspective"
    /\ out = <<>>
    /\ out' = <<EllipseWithPerspective(args.cx, args.cy, args.rx, args.ry,
                                       args.eye, args.transform)>>
    /\ UNCHANGED <<op, args, heap>>

InitProj ==
    \/ InitPerspectiveXYProjection
    \/ InitPointWithPerspective
    \/ InitPointsWithPerspective
    \/ InitEllipseWithPerspective

NextProj ==
    \/ CallPerspectiveXYProjection
    \/ CallPointWithPerspective
    \/ CallPointsWithPerspective
    \/ CallEllipseWithPerspective

SpecProj == InitProj /\ [][NextProj]_vars

----------------------------------------------------------------------------
(* Properties of the projector *)

ProjCalled == op = "PerspectiveXYProjection" /\ Len(out) = 1

\* column j of the points matrix P, as the point (x, y, z)
ColumnOf(P, j) == [x |-> P.rows[1][j], y |-> P.rows[2][j], z |-> P.rows[3][j]]

\* p lies where the line from the eye through c meets the plane z = 0:
\* p - eye = s (c - eye) with s = eye.z / (eye.z - c.z), cleared of the division
OnSightLine(p, eye, c) ==
    /\ QIsFinite(p.x) /\ QIsFinite(p.y)
    /\ QEq(QMul(QSub(p.x, eye.x), QSub(eye.z, c.z)), QMul(eye.z, QSub(c.x, eye.x)))
    /\ QEq(QMul(QSub(p.y, eye.y), QSub(eye.z, c.z)), QMul(eye.z, QSub(c.y, eye.y)))

\* C5: for an eye off the plane z = 0 and a matrix of columns (x, y, z, 1), the
\* projection yields one point per column, in column order; the point of a
\* column with z # eye.z is eye + s (column - eye) in x and y with
\* s = eye.z / (eye.z - z), and a column with z = 0 comes back as (x, y).
C5_ProjectionFormula ==
    (ProjCalled /\ args.affinePoints.m = 4 /\ ~QIsZero(args.eye.z)) =>
        /\ out[1].ok
        /\ Len(out[1].val) = args.affinePoints.n
        /\ \A j \in 1..args.affinePoints.n :
            LET c == ColumnOf(args.affinePoints, j)
                p == out[1].val[j]
            IN  ~QEq(c.z, args.eye.z) =>
                    /\ OnSightLine(p, args.eye, c)
                    /\ QIsZero(c.z) => p = [x |-> c.x, y |-> c.y]

\* two columns, the first in the plane z = 0 and the second off it, which the
\* projection moves
C5_Witness ==
    /\ ProjCalled /\ args.affinePoints.m = 4 /\ args.affinePoints.n = 2
    /\ ~QIsZero(args.eye.z)
    /\ out[1].ok
    /\ LET c1 == ColumnOf(args.affinePoints, 1)
           c2 == ColumnOf(args.affinePoints, 2)
       IN  /\ QIsZero(c1.z) /\ out[1].val[1] = [x |-> c1.x, y |-> c1.y]
           /\ ~QIsZero(c2.z) /\ ~QEq(c2.z, args.eye.z)
           /\ out[1].val[2].x # c2.x
           /\ out[1].val[2] # out[1].val[1]

\* C6 as stated: a column at the height of the eye comes back with both
\* coordinates infinite.
C6_BothInfinite ==
    (ProjCalled /\ args.affinePoints.m = 4 /\ ~QIsZero(args.eye.z)) =>
        /\ out[1].ok
        /\ \A j \in 1..args.affinePoints.n :
            QEq(ColumnOf(args.affinePoints, j).z, args.eye.z) =>
                QIsInf(out[1].val[j].x) /\ QIsInf(out[1].val[j].y)

\* the coordinate of a point at the height of the eye: the infinite scale, of
\* the sign of eye.z, times the offset from the eye, which is NaN for offset 0
AtEyeHeight(v, e, ez) ==
    IF QEq(v, e) THEN QNaN ELSE QInf(QSign(ez) * QSign(QSub(v, e)))

\* C6: for a column at the height of an eye off the plane z = 0 the projection
\* raises no error; a coordinate of the point is NaN where the column has the
\* eye's coordinate, and otherwise infinite with the sign of eye.z times the
\* sign of the column's offset from the eye.
C6_InfiniteOrNaN ==
    (ProjCalled /\ args.affinePoints.m = 4 /\ ~QIsZero(args.eye.z)) =>
        /\ out[1].ok
        /\ \A j \in 1..args.affinePoints.n :
            LET c == ColumnOf(args.affinePoints, j)
            IN  QEq(c.z, args.eye.z) =>
                    /\ out[1].val[j].x = AtEyeHeight(c.x, args.eye.x, args.eye.z)
                    /\ out[1].val[j].y = AtEyeHeight(c.y, args.eye.y, args.eye.z)

\* a column straight beside the eye: x is NaN and y is infinite
C6_Witness ==
    /\ ProjCalled /\ args.affinePoints.m = 4 /\ ~QIsZero(args.eye.z)
    /\ out[1].ok
    /\ LET c == ColumnOf(args.affinePoints, 1)
       IN  /\ QEq(c.z, args.eye.z) /\ QEq(c.x, args.eye.x) /\ ~QEq(c.y, args.eye.y)
           /\ QIsNaN(out[1].val[1].x)
           /\ QIsInf(out[1].val[1].y)

TransformCalled ==
    /\ op \in {"PointWithPerspective", "PointsWithPerspective", "EllipseWithPerspective"}
    /\ Len(out) = 1

\* C10: PerspectiveXYProjection on a points matrix that has not 4 rows, and
\* PointWithPerspective, PointsWithPerspective and EllipseWithPerspective on a
\* transform that is not 4x4, raise the error of the shape check and return
\* nothing: no multiplication and no projection has taken place.
C10_ShapeChecksFailFast ==
    /\ (ProjCalled /\ args.affinePoints.m # 4) =>
            out[1] = Throw("Error", "Affine points matrix must have 4 rows.")
    /\ (TransformCalled /\ (args.transform.m # 4 \/ args.transform.n # 4)) =>
            out[1] = Throw("Error", "Transform matrix must be 4x4.")

\* a 5x5 transform applied to points of 5 rows, which multiply without error
C10_Witness ==
    /\ op = "PointsWithPerspective" /\ Len(out) = 1
    /\ args.transform.m = 5 /\ args.transform.n = 5 /\ args.points.m = 5
    /\ Mult(args.transform, args.points).ok
    /\ ~out[1].ok

----------------------------------------------------------------------------
(* Properties of the conic fitter under projection *)

EllipseCalled == op = "EllipseWithPerspective" /\ Len(out) = 1

\* |v - w| <= 1e-5; a value that is kept as an expression is given the benefit
\* of the doubt
WithinTolerance(v, w) ==
    IsOpaque(v) \/ QLe(QAbs(QSub(v, w)), QFrac(1, 100000))

\* theta = 0 (mod pi) for theta = 0.5 * atan2(y, x): atan2 is 0 (mod 2 pi) on
\* the non-negative x axis
ThetaIsZeroModPi(theta) ==
    QIsZero(theta.halfAtan2[1]) /\ QGe(theta.halfAtan2[2], QZero)

\* C1: with the identity transform and an eye off the plane z = 0,
\* EllipseWithPerspective returns the ellipse it was given: cx, cy, rx and ry
\* each within 1e-5 of the input and theta = 0 (mod pi).
C1_RoundTrip ==
    (EllipseCalled /\ args.transform = Identity(4) /\ ~QIsZero(args.eye.z)) =>
        /\ out[1].ok
        /\ WithinTolerance(out[1].val.ellipse.cx, args.cx)
        /\ WithinTolerance(out[1].val.ellipse.cy, args.cy)
        /\ WithinTolerance(out[1].val.ellipse.rx, args.rx)
        /\ WithinTolerance(out[1].val.ellipse.ry, args.ry)
        /\ ThetaIsZeroModPi(out[1].val.ellipse.theta)

\* the ellipse of the repository's test comes back as given
C1_TestCase ==
    /\ EllipseCalled /\ args.transform = Identity(4) /\ args.eye = Vec3(0, 0, 2)
    /\ args.cx = QZero /\ args.cy = QZero /\ args.rx = QInt(2) /\ args.ry = QOne
    /\ out[1].ok
    /\ out[1].val.ellipse.rx = QInt(2) /\ out[1].val.ellipse.ry = QOne
    /\ ThetaIsZeroModPi(out[1].val.ellipse.theta)

\* the upright ellipse of radii 1 and 2 about the origin comes back with its
\* radii exchanged and turned by a quarter
C1_Exchanged ==
    /\ EllipseCalled /\ args.transform = Identity(4) /\ args.eye = Vec3(0, 0, 2)
    /\ args.cx = QZero /\ args.cy = QZero /\ args.rx = QOne /\ args.ry = QInt(2)
    /\ out[1].ok
    /\ out[1].val.ellipse.rx = QInt(2) /\ out[1].val.ellipse.ry = QOne
    /\ ~ThetaIsZeroModPi(out[1].val.ellipse.theta)

----------------------------------------------------------------------------
(* Calls of Matrix.Mult *)

MaxDim == 3

\* the m x n matrix of the entries (i + 2 j + seed) mod 3
SeededMatrix(m, n, seed) ==
    [m |-> m, n |-> n,
     rows |-> [i \in 1..m |-> [j \in 1..n |-> QInt((i + 2 * j + seed) % 3)]]]

SeededVector(n, seed) == ArrayOf([j \in 1..n |-> QInt((j + seed) % 3)])

Seeds == {0, 1}

Matrices == {SeededMatrix(m, n, seed) : m \in 1..MaxDim, n \in 1..MaxDim, seed \in Seeds}

Vectors == {SeededVector(n, seed) : n \in 1..MaxDim, seed \in Seeds}

InitMult ==
    \E A \in Matrices :
        /\ op = "Mult"
        /\ \/ \E B \in Matrices : args = [this |-> A, b |-> B]
           \/ \E v \in Vectors : args = [this |-> A, b |-> v]
        /\ out = <<>>
        /\ heap = <<>>

CallMult ==
    /\ op = "Mult"
    /\ out = <<>>
    /\ out' = <<Mult(args.this, args.b)>>
    /\ UNCHANGED <<op, args, heap>>

SpecMatrix == InitMult /\ [][CallMult]_vars

----------------------------------------------------------------------------
(* Properties of Matrix.Mult *)

MultCalled == op = "Mult" /\ Len(out) = 1

\* the receiver's column count differs from the argument's row count or length
DimensionMismatch ==
    IF IsMatrix(args.b) THEN args.this.n # args.b.m ELSE args.this.n # args.b.length

\* C8: whenever the receiver's column count differs from the row count of a
\* matrix argument, or from the length of a vector argument, Mult fails and
\* returns no product.
C8_MultDimensionChecked ==
    (MultCalled /\ DimensionMismatch) => ~out[1].ok

\* a 2x2 matrix times a 3x2 matrix returns a 2x2 matrix: the third row of the
\* argument is never read
C8_ProductReturned ==
    /\ MultCalled
    /\ IsMatrix(args.b)
    /\ args.this.m = 2 /\ args.this.n = 2 /\ args.b.m = 3 /\ args.b.n = 2
    /\ out[1].ok
    /\ out[1].val.m = 2 /\ out[1].val.n = 2

\* a vector of the wrong length is refused
C8_VectorRefused ==
    /\ MultCalled
    /\ ~IsMatrix(args.b) /\ DimensionMismatch
    /\ out[1] = Throw("Error", "Matrix columns must match vector length")

----------------------------------------------------------------------------
(* Calls of the conic fitter *)

MaxPoints == 5

FitPoints == {Point2(0, 0), Point2(1, 0), Point2(0, 1), Point2(1, 1)}

RECURSIVE ListsOf(_, _)
\* the lists of n members of S
ListsOf(S, n) ==
    IF n = 0 THEN {<<>>} ELSE {Append(l, x) : l \in ListsOf(S, n - 1), x \in S}

\* short lists of points, and the 8 sample points of two ellipses
InitEllipseFromPoints ==
    /\ op = "EllipseFromPoints"
    /\ \/ \E n \in 0..MaxPoints : \E points \in ListsOf(FitPoints, n) :
            args = [points |-> points]
       \/ \E rx \in {QOne, QInt(2)} :
            args = [points |-> Val(PerspectiveXYProjection(Vec3(0, 0, 2),
                                    SamplePoints(QZero, QZero, rx, QOne)))]
    /\ out = <<>>
    /\ heap = <<>>

CallEllipseFromPoints ==
    /\ op = "EllipseFromPoints"
    /\ out = <<>>
    /\ out' = <<EllipseFromPoints(args.points)>>
    /\ UNCHANGED <<op, args, heap>>

SpecFit == InitEllipseFromPoints /\ [][CallEllipseFromPoints]_vars

----------------------------------------------------------------------------
(* Properties of the conic fitter *)

FitCalled == op = "EllipseFromPoints" /\ Len(out) = 1

\* C9: EllipseFromPoints called with fewer than 5 points fails with an
\* InsufficientPoints error and returns no coefficients.
C9_FewPointsRefused ==
    (FitCalled /\ Len(args.points) < 5) =>
        /\ ~out[1].ok
        /\ out[1].err = "InsufficientPoints"

\* the corners of the unit square, four points, come back with coefficients
C9_CoefficientsReturned ==
    /\ FitCalled
    /\ args.points = <<Point2(0, 0), Point2(1, 0), Point2(1, 1), Point2(0, 1)>>
    /\ out[1].ok
    /\ DOMAIN out[1].val = {"A", "B", "C", "D", "E"}

\* no points at all: the matrix cannot be built
C9_NoPoints ==
    /\ FitCalled
    /\ args.points = <<>>
    /\ out[1] = Throw("TypeError", "Cannot read properties of undefined")

----------------------------------------------------------------------------
(* Arc conversion.  Angles are radians in the code; the model makes its     *)
(* calls with x-axis rotation 0, the one angle whose cosine and sine it     *)
(* represents, so that cosPhi = 1 and sinPhi = 0.                           *)

\* Step 1 of arcEndpointToCenterParameters: (x1', y1'), for phi = 0
PrimedPoint(x1, y1, x2, y2) ==
    LET cosPhi == QOne
        sinPhi == QZero
        dx == QDiv(QSub(x1, x2), QInt(2))
        dy == QDiv(QSub(y1, y2), QInt(2))
    IN  [x1p |-> QAdd(QMul(cosPhi, dx), QMul(sinPhi, dy)),
         y1p |-> QAdd(QMul(QNeg(sinPhi), dx), QMul(cosPhi, dy))]

\* Step 2: the radii, made large enough by the scale sqrt(lambda)
CorrectedRadii(p, rx, ry) ==
    CHOOSE r \in {IF QGt(lambda, QOne)
                  THEN [rx |-> QMul(rx, QSqrt(lambda)), ry |-> QMul(ry, QSqrt(lambda))]
                  ELSE [rx |-> rx, ry |-> ry] :
                     lambda \in {QAdd(QDiv(QSq(p.x1p), QSq(rx)),
                                      QDiv(QSq(p.y1p), QSq(ry)))}} : TRUE

\* Step 3: sq, the ratio under the root, from the squares of the radii r and
\* of the primed point p
RatioOfSquares(rx_sq, ry_sq, x1p_sq, y1p_sq) ==
    QDiv(QSub(QSub(QMul(rx_sq, ry_sq), QMul(rx_sq, y1p_sq)), QMul(ry_sq, x1p_sq)),
         QAdd(QMul(rx_sq, y1p_sq), QMul(ry_sq, x1p_sq)))

\* Step 3: coef = sign * Math.sqrt(sq), sq raised to 0 when negative
ArcCoef(p, r, fa, fs) ==
    CHOOSE coef \in {QMul(IF fa = fs THEN QInt(-1) ELSE QOne,
                          QSqrt(IF QLt(sq, QZero) THEN QZero ELSE sq)) :
                        sq \in {RatioOfSquares(rx_sq, ry_sq, x1p_sq, y1p_sq) :
                                   rx_sq \in {QSq(r.rx)}, ry_sq \in {QSq(r.ry)},
                                   x1p_sq \in {QSq(p.x1p)}, y1p_sq \in {QSq(p.y1p)}}} : TRUE

\* Step 3: (cx', cy')
PrimedCentre(p, r, fa, fs) ==
    CHOOSE c \in {[cxp |-> QMul(coef, QDiv(QMul(r.rx, p.y1p), r.ry)),
                   cyp |-> QMul(coef, QDiv(QNeg(QMul(r.ry, p.x1p)), r.rx))] :
                     coef \in {ArcCoef(p, r, fa, fs)}} : TRUE

\* Step 4: (cx, cy), for phi = 0, with what else is returned
CentreForm(x1, y1, x2, y2, r, phi, c) ==
    LET cosPhi == QOne
        sinPhi == QZero
    IN  [cx |-> QAdd(QSub(QMul(cosPhi, c.cxp), QMul(sinPhi, c.cyp)),
                     QDiv(QAdd(x1, x2), QInt(2))),
         cy |-> QAdd(QAdd(QMul(sinPhi, c.cxp), QMul(cosPhi, c.cyp)),
                     QDiv(QAdd(y1, y2), QInt(2))),
         rx |-> r.rx, ry |-> r.ry, phi |-> phi]

\* Steps 2 to 4 on the primed point p
CentreFromPrimed(x1, y1, rx, ry, phi, fa, fs, x2, y2, p) ==
    CHOOSE el \in UNION {{CentreForm(x1, y1, x2, y2, r, phi, c) :
                             c \in {PrimedCentre(p, r, fa, fs)}} :
                            r \in {CorrectedRadii(p, rx, ry)}} : TRUE

\* arcEndpointToCenterParameters for phi = 0, on radii for which the scale
\* sqrt(lambda) of too small radii is a number of the model.  theta1 and
\* deltaTheta, which ArcWithPerspective does not read, are left out.  Each
\* step's values are bound once, as the member of a singleton.
arcEndpointToCenterParameters(x1, y1, rx, ry, phi, fa, fs, x2, y2) ==
    CHOOSE el \in {CentreFromPrimed(x1, y1, rx, ry, phi, fa, fs, x2, y2, p) :
                      p \in {PrimedPoint(x1, y1, x2, y2)}} : TRUE

\* Math.atan2(by, bx) - Math.atan2(ay, ax) > Math.PI: the first angle is
\* negative and the second lies beyond its opposite
ExceedsPi(ay, ax, by, bx) ==
    /\ AngleBand(ay, ax) = 0
    /\ \/ AngleBand(by, bx) = 3
       \/ AngleBand(by, bx) = 2 /\ AngleCmp(by, bx, QNeg(ay), QNeg(ax)) > 0

\* the flags of arcCenterToEndpointParameters for theta1 = atan2(w0.y, w0.x)
\* and deltaTheta = atan2(w1.y, w1.x) - theta1; a NaN makes every comparison
\* false.  The end points, which ArcWithPerspective does not read, are left out.
arcCenterToEndpointParameters(w0, w1) ==
    IF QIsNaN(w0.x) \/ QIsNaN(w0.y) \/ QIsNaN(w1.x) \/ QIsNaN(w1.y)
    THEN [fa |-> 0, fs |-> 0]
    ELSE [fa |-> IF ExceedsPi(w0.y, w0.x, w1.y, w1.x) \/ ExceedsPi(w1.y, w1.x, w0.y, w0.x)
                 THEN 1 ELSE 0,
          fs |-> IF AngleCmp(w1.y, w1.x, w0.y, w0.x) >= 0 THEN 1 ELSE 0]

\* -theta * (180 / Math.PI) for theta = 0.5 * atan2(y, x): 0 on the
\* non-negative x axis, and otherwise kept by its angle
NegDegrees(theta) ==
    IF QIsZero(theta.halfAtan2[1]) /\ QGe(theta.halfAtan2[2], QZero) THEN QZero
    ELSE [negDegreesOf |-> theta]

\* line.errorSize < 0.99; a comparison with NaN is false
ErrorSizeBelow(line) ==
    IF DOMAIN line.errorSize = {"num", "rootOf"}
    THEN ~QIsNaN(line.errorSize.num) /\ ~QIsNaN(line.errorSize.rootOf)
            /\ DistanceLt(line.errorSize, QFrac(99, 100))
    ELSE QLt(line.errorSize, QFrac(99, 100))

\* ArcWithPerspective after its calls: el the centre form of the arc, ep what
\* EllipseWithPerspective returned, pt0 and pt1 the projected end points.
\* Yields what is returned or thrown, and av as the call leaves it.
ArcFromProjection(av, el, ep, pt0, pt1) ==
    IF ErrorSizeBelow(ep.line)
    THEN [ret |-> Throw("ReferenceError", "p0 is not defined"), av |-> av]
    ELSE CHOOSE r \in
            {[ret |-> Ok([_ellipse |-> ep.ellipse,
                          arc |-> <<ep.ellipse.rx, ep.ellipse.ry, NegDegrees(ep.ellipse.theta),
                                    newArc.fa, newArc.fs, pt1.x, pt1.y>>]),
              av |-> <<ep.ellipse.rx, ep.ellipse.ry, NegDegrees(ep.ellipse.theta),
                       newArc.fa, newArc.fs, pt1.x, pt1.y>>] :
                newArc \in UNION {{arcCenterToEndpointParameters(w0, w1)} :
                    w0 \in {[x |-> QDiv(QSub(pt0.x, el.cx), el.rx),
                             y |-> QDiv(QSub(pt0.y, el.cy), el.ry)]},
                    w1 \in {[x |-> QDiv(QSub(pt1.x, el.cx), el.rx),
                             y |-> QDiv(QSub(pt1.y, el.cy), el.ry)]}}} : TRUE

\* ArcWithPerspective from the centre form el of the arc on
ArcOfCentreForm(cur, av, perspective, el) ==
    CHOOSE r \in
        {ArcFromProjection(av, el, ep, pt0, pt1) :
           ep \in {Val(EllipseWithPerspective(el.cx, el.cy, el.rx, el.ry,
                                              perspective.eye, perspective.transform))},
           pt0 \in {Val(PointWithPerspective(cur.x, cur.y,
                                             perspective.eye, perspective.transform))},
           pt1 \in {Val(PointWithPerspective(av[6], av[7],
                                             perspective.eye, perspective.transform))}} : TRUE

\* av = [rx, ry, xAxisRotation, largeArcFlag, sweepFlag, x, y].  The transform
\* is checked by EllipseWithPerspective, the first call to use it.
ArcWithPerspective(cur, av, perspective) ==
    IF perspective.transform.m # 4 \/ perspective.transform.n # 4
    THEN [ret |-> Throw("Error", "Transform matrix must be 4x4."), av |-> av]
    ELSE CHOOSE r \in
            {ArcOfCentreForm(cur, av, perspective, el) :
               el \in {arcEndpointToCenterParameters(cur.x, cur.y, av[1], av[2], av[3],
                                                     av[4], av[5], av[6], av[7])}} : TRUE

----------------------------------------------------------------------------
(* Calls on arguments the caller keeps.  heap holds the caller's objects    *)
(* that a call can write to: the step list given to Transform and the       *)
(* array av given to ArcWithPerspective; args holds them as first given.    *)

MaxCalls == 2

MaxSteps == 2

\* the steps of a transformation; the last has an operation Transform does
\* not know
Steps ==
    {[op |-> "Rotate", args |-> [axes |-> "x", angle |-> 2, center |-> Null]],
     [op |-> "Rotate", args |-> [axes |-> "z", angle |-> 1, center |-> Null]],
     [op |-> "Translate", args |-> [vec |-> <<QInt(1), QInt(0), QInt(1)>>]],
     [op |-> "Scale", args |-> [vec |-> <<QInt(2), QInt(2), QInt(2)>>]]}

InitTransform ==
    \E n \in 0..MaxSteps : \E transformation \in ListsOf(Steps, n) :
        \E this \in {Identity(4), Translate(Identity(4), [vec |-> <<QInt(0), QInt(1), QInt(0)>>])} :
            /\ op = "Transform"
            /\ args = [this |-> this, transformation |-> transformation]
            /\ out = <<>>
            /\ heap = [steps |-> transformation]

\* transformation.reverse() turns the caller's list over before any step is
\* applied, whether or not a step then throws
CallTransform ==
    /\ op = "Transform"
    /\ Len(out) < MaxCalls
    /\ out' = Append(out, Transform(args.this, heap.steps))
    /\ heap' = [steps |-> Reverse(heap.steps)]
    /\ UNCHANGED <<op, args>>

\* the point of the ellipse about c at k eighths of a turn
PointOnEllipse(c, rx, ry, k) ==
    [x |-> QAdd(c.x, QMul(rx, CosE(k))), y |-> QAdd(c.y, QMul(ry, SinE(k)))]

QuarterTurns == {0, 2, 4, 6}

\* the eye and the transform of a perspective; the last transform is not 4x4
Perspectives ==
    {[eye |-> Vec3(0, 0, 2), transform |-> Identity(4)],
     [eye |-> Vec3(0, 0, 2),
      transform |-> Translate(Identity(4), [vec |-> <<QZero, QZero, QOne>>])],
     [eye |-> Vec3(0, 0, 2), transform |-> Identity(3)]}

\* c is the centre of the arc from p0 to p1 under the flags fa and fs
IsCentreOfArc(c, p0, p1, rx, ry, fa, fs) ==
    \E el \in {arcEndpointToCenterParameters(p0.x, p0.y, rx, ry, QZero, fa, fs, p1.x, p1.y)} :
        el.cx = c.x /\ el.cy = c.y

\* an arc from one quarter point of an ellipse about c to another, under the
\* flags that keep c its centre
InitArcWithPerspective ==
    \E c \in EllipseCentres, rx \in EllipseRadii, ry \in EllipseRadii,
       k0 \in QuarterTurns, k1 \in QuarterTurns, fa \in {0, 1}, fs \in {0, 1},
       perspective \in Perspectives :
        \E p0 \in {PointOnEllipse(c, rx, ry, k0)}, p1 \in {PointOnEllipse(c, rx, ry, k1)} :
            /\ k0 # k1
            /\ IsCentreOfArc(c, p0, p1, rx, ry, fa, fs)
            /\ op = "ArcWithPerspective"
            /\ args = [cur |-> p0, av |-> <<rx, ry, QZero, fa, fs, p1.x, p1.y>>,
                       perspective |-> perspective]
            /\ out = <<>>
            /\ heap = [av |-> args.av]

CallArcWithPerspective ==
    /\ op = "ArcWithPerspective"
    /\ out = <<>>
    /\ \E r \in {ArcWithPerspective(args.cur, heap.av, args.perspective)} :
        /\ out' = <<r.ret>>
        /\ heap' = [av |-> r.av]
    /\ UNCHANGED <<op, args>>

InitFrame == InitTransform \/ InitArcWithPerspective

NextFrame == CallTransform \/ CallArcWithPerspective

SpecFrame == InitFrame /\ [][NextFrame]_vars

----------------------------------------------------------------------------
(* Properties of the calls on kept arguments *)

ArcCalled == op = "ArcWithPerspective" /\ Len(out) = 1

WellShaped(transform) == transform.m = 4 /\ transform.n = 4

\* C2: under a 4x4 transform ArcWithPerspective raises no error and returns
\* exactly one of a line and an arc.
C2_LineOrArc ==
    (ArcCalled /\ WellShaped(args.perspective.transform)) =>
        /\ out[1].ok
        /\ ("line" \in DOMAIN out[1].val) # ("arc" \in DOMAIN out[1].val)

\* a quarter of the circle of radius 1/2 about the origin: the call ends in a
\* ReferenceError and leaves av alone
C2_LineBranchThrows ==
    /\ ArcCalled
    /\ args.perspective = [eye |-> Vec3(0, 0, 2), transform |-> Identity(4)]
    /\ args.cur = [x |-> QFrac(1, 2), y |-> QZero]
    /\ args.av = <<QFrac(1, 2), QFrac(1, 2), QZero, 0, 1, QZero, QFrac(1, 2)>>
    /\ out[1] = Throw("ReferenceError", "p0 is not defined")
    /\ heap.av = args.av

\* a quarter of the circle of radius 1 about the origin comes back as an arc
C2_ArcBranchReturns ==
    /\ ArcCalled
    /\ args.perspective = [eye |-> Vec3(0, 0, 2), transform |-> Identity(4)]
    /\ args.cur = [x |-> QOne, y |-> QZero]
    /\ args.av = <<QOne, QOne, QZero, 0, 1, QZero, QOne>>
    /\ out[1].ok
    /\ DOMAIN out[1].val = {"_ellipse", "arc"}

\* C7: a call leaves its arguments as they were: after Transform the caller's
\* step list is the list given, after ArcWithPerspective the caller's av is
\* the tuple given, and every repetition of Transform on the same list
\* returns what the first call returned.
C7_ArgumentsUntouched ==
    /\ (op = "Transform" /\ Len(out) >= 1) =>
            /\ heap.steps = args.transformation
            /\ \A i \in 1..Len(out) : out[i] = out[1]
    /\ ArcCalled => heap.av = args.av

\* Transform called twice on a rotation and a translation: the list is back in
\* order after the second call, which applied it the other way round
C7_SecondCallDiffers ==
    /\ op = "Transform" /\ Len(out) = 2
    /\ Len(args.transformation) = 2
    /\ args.transformation[1].op = "Rotate" /\ args.transformation[2].op = "Translate"
    /\ heap.steps = args.transformation
    /\ out[1].ok /\ out[2].ok
    /\ out[1] # out[2]

\* Transform called once: the caller's list is left reversed
C7_StepsReversed ==
    /\ op = "Transform" /\ Len(out) = 1
    /\ Len(args.transformation) = 2
    /\ heap.steps # args.transformation
    /\ heap.steps = <<args.transformation[2], args.transformation[1]>>

\* ArcWithPerspective on the upright ellipse of radii 1 and 2: the caller's av
\* holds the fitted radii 2 and 1 after the call
C7_ArcOverwritten ==
    /\ ArcCalled
    /\ out[1].ok
    /\ args.av[1] = QOne /\ args.av[2] = QInt(2)
    /\ heap.av[1] = QInt(2) /\ heap.av[2] = QOne
    /\ out[1].val.arc = heap.av

----------------------------------------------------------------------------
(* The program as a whole: one entry point is called on the arguments drawn *)
(* by the initial state.                                                    *)

Init ==
    \/ InitPolygonFromLineIntersectionPolygon
    \/ InitLineFromIntersectionOfPlanes
    \/ InitProj
    \/ InitMult
    \/ InitEllipseFromPoints
    \/ InitFrame

Next ==
    \/ CallPolygonFromLineIntersectionPolygon
    \/ CallLineFromIntersectionOfPlanes
    \/ NextProj
    \/ CallMult
    \/ CallEllipseFromPoints
    \/ NextFrame

Spec == Init /\ [][Next]_vars


----------------------------------------------------------------------------
(* Properties of Transform as a composition of steps *)

\* every step of the list is a Rotate or a Translate
RotateOrTranslate(transformation) ==
    \A i \in 1..Len(transformation) : transformation[i].op \in {"Rotate", "Translate"}

\* the matrix of one step: what the step makes of the 4x4 identity
StepMatrix(t) ==
    IF t.op = "Rotate" THEN Rotate(Identity(4), t.args) ELSE Translate(Identity(4), t.args)

RECURSIVE StepProduct(_, _)
\* S1 * S2 * ... * Sk for the first k steps of the list
StepProduct(steps, k) ==
    IF k = 0 THEN Identity(4)
    ELSE Val(Mult(StepProduct(steps, k - 1), StepMatrix(steps[k])))

ComposesIdentity ==
    /\ op = "Transform"
    /\ args.this = Identity(4)
    /\ RotateOrTranslate(args.transformation)

\* C11: every call of Identity(4).Transform on a list of Rotate and Translate
\* steps yields the product S1 * S2 * ... * Sk of the step matrices in list
\* order, the same matrix at each call on that list
C11_ListOrderProduct ==
    ComposesIdentity =>
        \A i \in 1..Len(out) :
            out[i] = Ok(StepProduct(args.transformation, Len(args.transformation)))

\* the first call on a list yields the product in list order
C11_FirstCallInListOrder ==
    (ComposesIdentity /\ Len(out) >= 1) =>
        out[1] = Ok(StepProduct(args.transformation, Len(args.transformation)))

\* a second call on the same list has yielded the product in the opposite
\* order, a different matrix
C11_SecondCallReversed ==
    /\ ComposesIdentity
    /\ Len(out) = 2
    /\ out[1] = Ok(StepProduct(args.transformation, Len(args.transformation)))
    /\ out[2] = Ok(StepProduct(Reverse(args.transformation), Len(args.transformation)))
    /\ out[1] # out[2]


----------------------------------------------------------------------------
(* Matrix objects.  objs lists the Matrix objects that exist, each known by *)
(* its place in the list; the receiver of a call is the first.  A call      *)
(* yields the objects after it together with what it returns: the place of  *)
(* the returned object, or a thrown error.  Objects a call creates on its   *)
(* way and does not return are left out unless a later step reads them.     *)

\* new Matrix: a further object
Alloc(objs, M) == [objs |-> Append(objs, M), ret |-> Ok(Len(objs) + 1)]

\* return this, or any object that exists already
Same(objs, ref) == [objs |-> objs, ret |-> Ok(ref)]

Refused(objs, thrown) == [objs |-> objs, ret |-> thrown]

\* a.Mult(b) for two Matrix objects: let ret = new Matrix(m, p)
MultObject(objs, a, b) ==
    CHOOSE o \in {IF r.ok THEN Alloc(objs, r.val) ELSE Refused(objs, r) :
                     r \in {Mult(objs[a], objs[b])}} : TRUE

\* this.Transpose(): const transposed = new Matrix(this.n, this.m)
TransposeObject(objs, this) == Alloc(objs, Transpose(objs[this]))

\* this.Identity(): Matrix.Identity(this.m)
IdentityObject(objs, this) == Alloc(objs, Identity(objs[this].m))

\* this.Rotate(opts): the last Mult creates what is returned
RotateObject(objs, this, opts) == Alloc(objs, Rotate(objs[this], opts))

\* this.Translate(opts): transform.Mult(this)
TranslateObject(objs, this, opts) == Alloc(objs, Translate(objs[this], opts))

\* this.Transform(transformation): result starts as this and is replaced by
\* what each step returns
TransformObject(objs, this, transformation) ==
    CHOOSE o \in {IF ~r.ok THEN Refused(objs, r)
                  ELSE IF Len(transformation) = 0 THEN Same(objs, this)
                  ELSE Alloc(objs, r.val) :
                     r \in {Transform(objs[this], transformation)}} : TRUE

RECURSIVE PowObject(_, _, _)
\* this.Pow(n) for an integer n >= 0; Matrix.identity, which n = 0 calls, does
\* not exist
PowObject(objs, this, n) ==
    IF n = 0 THEN Refused(objs, Throw("TypeError", "Matrix.identity is not a function"))
    ELSE IF n = 1 THEN Same(objs, this)
    ELSE IF n % 2 = 0
    THEN CHOOSE o \in {IF ~m2.ret.ok THEN m2 ELSE MultObject(m2.objs, m2.ret.val, m2.ret.val) :
                          m2 \in {PowObject(objs, this, n \div 2)}} : TRUE
    ELSE CHOOSE o \in {IF ~sq.ret.ok THEN sq ELSE MultObject(sq.objs, sq.ret.val, this) :
                          sq \in {IF ~m2.ret.ok THEN m2
                                  ELSE MultObject(m2.objs, m2.ret.val, m2.ret.val) :
                                     m2 \in {PowObject(objs, this, (n - 1) \div 2)}}} : TRUE

\* this.Graphics(): T = this.Identity() with T[1][1] = -1, then T.Mult(this).Mult(T)
GraphicsObject(objs, this) ==
    IF objs[this].m # objs[this].n
    THEN Refused(objs, Throw("Error", "No graphics transformation possible"))
    ELSE IF objs[this].n <= 1 THEN Same(objs, this)
    ELSE CHOOSE o \in
            {IF ~tm.ret.ok THEN tm ELSE MultObject(tm.objs, tm.ret.val, Len(objs) + 1) :
                tm \in {MultObject(T.objs, Len(objs) + 1, this) :
                    T \in {Alloc(objs, [Identity(objs[this].m) EXCEPT
                                           !.rows[2][2] = QInt(-1)])}}} : TRUE

MaxPow == 3

\* the receivers: square matrices of every size, and one that is not square
Receivers ==
    {SeededMatrix(n, n, seed) : n \in 1..MaxDim, seed \in Seeds} \cup {SeededMatrix(2, 3, 0)}

\* the steps Rotate and Translate of a transformation
KnownSteps == {t \in Steps : t.op \in {"Rotate", "Translate"}}

\* the calls made on a receiver A: Rotate, Translate and Transform on the
\* matrices of 3 rows or more, which they are written for
InstanceCalls(A) ==
    {[op |-> "Mult", arg |-> A], [op |-> "Transpose", arg |-> Null],
     [op |-> "Identity", arg |-> Null], [op |-> "Graphics", arg |-> Null]}
    \cup {[op |-> "Pow", arg |-> n] : n \in 0..MaxPow}
    \cup (IF A.m # A.n \/ A.m < 3 THEN {}
          ELSE {[op |-> t.op, arg |-> t.args] : t \in KnownSteps}
               \cup {[op |-> "Transform", arg |-> l] :
                        l \in UNION {ListsOf(KnownSteps, k) : k \in 0..MaxSteps}})

InitInstance ==
    \E this \in Receivers : \E call \in InstanceCalls(this) :
        /\ op = call.op
        /\ args = [this |-> this, arg |-> call.arg]
        /\ out = <<>>
        /\ heap = [objs |-> <<this>>,
                   steps |-> IF call.op = "Transform" THEN call.arg ELSE <<>>]

\* the call is made on the first object; out takes what it returns
Returned(o) ==
    /\ out = <<>>
    /\ out' = <<o.ret>>
    /\ heap' = [heap EXCEPT !.objs = o.objs]
    /\ UNCHANGED <<op, args>>

\* this.Mult(this)
CallMultObject == op = "Mult" /\ \E o \in {MultObject(heap.objs, 1, 1)} : Returned(o)

CallTransposeObject ==
    op = "Transpose" /\ \E o \in {TransposeObject(heap.objs, 1)} : Returned(o)

CallIdentityObject ==
    op = "Identity" /\ \E o \in {IdentityObject(heap.objs, 1)} : Returned(o)

CallRotateObject ==
    op = "Rotate" /\ \E o \in {RotateObject(heap.objs, 1, args.arg)} : Returned(o)

CallTranslateObject ==
    op = "Translate" /\ \E o \in {TranslateObject(heap.objs, 1, args.arg)} : Returned(o)

\* the caller's list is left reversed
CallTransformObject ==
    /\ op = "Transform"
    /\ out = <<>>
    /\ \E o \in {TransformObject(heap.objs, 1, heap.steps)} :
        /\ out' = <<o.ret>>
        /\ heap' = [objs |-> o.objs, steps |-> Reverse(heap.steps)]
    /\ UNCHANGED <<op, args>>

CallPowObject == op = "Pow" /\ \E o \in {PowObject(heap.objs, 1, args.arg)} : Returned(o)

CallGraphicsObject ==
    op = "Graphics" /\ \E o \in {GraphicsObject(heap.objs, 1)} : Returned(o)

NextInstance ==
    \/ CallMultObject
    \/ CallTransposeObject
    \/ CallIdentityObject
    \/ CallRotateObject
    \/ CallTranslateObject
    \/ CallTransformObject
    \/ CallPowObject
    \/ CallGraphicsObject

SpecInstance == InitInstance /\ [][NextInstance]_vars

----------------------------------------------------------------------------
(* Properties of the Matrix objects *)

\* a call on a receiver has returned a matrix
InstanceReturned ==
    /\ op \in {"Mult", "Transpose", "Identity", "Rotate", "Translate", "Transform",
               "Pow", "Graphics"}
    /\ "objs" \in DOMAIN heap
    /\ Len(out) = 1
    /\ out[1].ok

\* C12: every Matrix operation that returns a matrix returns an object that
\* is not its receiver, and the receiver holds the entries it held before
C12_ReturnsNewInstance ==
    InstanceReturned => (out[1].val # 1 /\ heap.objs[1] = args.this)

\* no operation writes to its receiver
C12_ReceiverUnchanged == InstanceReturned => heap.objs[1] = args.this

\* Pow(1) has returned its receiver
C12_PowOneReturnsThis ==
    InstanceReturned /\ op = "Pow" /\ args.arg = 1 /\ out[1].val = 1

\* Transform([]) has returned its receiver
C12_EmptyTransformReturnsThis ==
    InstanceReturned /\ op = "Transform" /\ args.arg = <<>> /\ out[1].val = 1

\* Graphics() of a 1x1 matrix has returned its receiver
C12_SmallGraphicsReturnsThis ==
    InstanceReturned /\ op = "Graphics" /\ args.this.m = 1 /\ out[1].val = 1

\* a call has returned a further object: Pow(3), from two products
C12_PowCreates ==
    /\ InstanceReturned /\ op = "Pow" /\ args.arg = 3 /\ out[1].val = 3
    /\ heap.objs[3] = Val(Mult(Val(Mult(args.this, args.this)), args.this))


----------------------------------------------------------------------------
(* Matrix.prototype.SVD by Jacobi rotations.  The angle of a rotation is    *)
(* half an arc tangent; its cosine and sine are numbers of the model for    *)
(* some entries only, and the calls are made on the matrices whose every    *)
(* rotation is.                                                             *)

MaxIterations == 100

\* Math.abs(S[i][j]), places counted from 1: beyond the last column S[i][j] is
\* undefined and its magnitude NaN
OffDiagonal(S, i, j) == IF i <= S.m /\ j <= S.n THEN QAbs(S.rows[i][j]) ELSE QNaN

RECURSIVE ScanOffDiagonal(_, _, _, _)
\* the search for the largest off-diagonal element, from the place (i, j) on:
\* i runs over 1..n and j over i+1..m; the first of equal magnitudes is kept
ScanOffDiagonal(S, i, j, best) ==
    IF i > S.n THEN best
    ELSE IF j > S.m THEN ScanOffDiagonal(S, i + 1, i + 2, best)
    ELSE CHOOSE r \in
            {ScanOffDiagonal(S, i, j + 1, b) :
                b \in {IF QGt(OffDiagonal(S, i, j), best.maxOffDiagonal)
                       THEN [maxOffDiagonal |-> OffDiagonal(S, i, j), p |-> i, q |-> j]
                       ELSE best}} : TRUE

\* maxOffDiagonal with its place (p, q)
LargestOffDiagonal(S) ==
    ScanOffDiagonal(S, 1, 2, [maxOffDiagonal |-> QZero, p |-> 1, q |-> 1])

\* a number of the model, not a root kept as a symbol
IsNumber(v) == DOMAIN v = {"a", "b", "d"}

\* cos and sin of theta for y # 0, from cos2 = cos(2 theta): theta lies in
\* (-pi/2, pi/2], so cos theta >= 0 and sin theta has the sign of y.  exact
\* tells whether both are numbers of the model.
HalfAngleOf(y, cos2) ==
    CHOOSE t \in
        {IF IsNumber(c) /\ IsNumber(s)
         THEN [exact |-> TRUE, cos |-> c, sin |-> IF QSign(y) < 0 THEN QNeg(s) ELSE s]
         ELSE [exact |-> FALSE] :
            c \in {QSqrt(QDiv(QAdd(QOne, cos2), QInt(2)))},
            s \in {QSqrt(QDiv(QSub(QOne, cos2), QInt(2)))}} : TRUE

\* cos and sin of theta = 0.5 * Math.atan2(y, x) for y # 0, by the half-angle
\* formulas: cos(2 theta) = x / sqrt(x^2 + y^2)
HalfAngle(y, x) ==
    CHOOSE t \in
        {IF ~IsNumber(r) THEN [exact |-> FALSE]
         ELSE CHOOSE u \in {HalfAngleOf(y, cos2) : cos2 \in {QDiv(x, r)}} : TRUE :
            r \in {QSqrt(QAdd(QSq(x), QSq(y)))}} : TRUE

\* theta of the rotation about the place best of S
Theta(S, best) ==
    CHOOSE t \in
        {HalfAngle(y, x) :
            y \in {QMul(QInt(2), S.rows[best.p][best.q])},
            x \in {QSub(S.rows[best.q][best.q], S.rows[best.p][best.p])}} : TRUE

\* the columns p and q of every row of M rotated
RotateColumns(M, p, q, cos, sin) ==
    [M EXCEPT !.rows = [i \in 1..M.m |->
        [M.rows[i] EXCEPT ![p] = QSub(QMul(cos, M.rows[i][p]), QMul(sin, M.rows[i][q])),
                          ![q] = QAdd(QMul(sin, M.rows[i][p]), QMul(cos, M.rows[i][q]))]]]

\* the rows p and q of every column of M rotated
RotateRows(M, p, q, cos, sin) ==
    [M EXCEPT !.rows =
        [M.rows EXCEPT
            ![p] = [i \in 1..M.n |-> QSub(QMul(cos, M.rows[p][i]), QMul(sin, M.rows[q][i]))],
            ![q] = [i \in 1..M.n |-> QAdd(QMul(sin, M.rows[p][i]), QMul(cos, M.rows[q][i]))]]]

\* U, S and V before the first iteration
JacobiStart(A) ==
    [U |-> Identity(A.m), S |-> [m |-> A.m, n |-> A.n, rows |-> A.rows],
     V |-> Identity(A.n), iter |-> 0]

\* one iteration that does not break: S, U and V updated by the rotation t
\* about the place best; S after its first loop is bound once, as the member
\* of a singleton
JacobiRotation(st, best, t) ==
    CHOOSE r \in
        {[U |-> RotateColumns(st.U, best.p, best.q, t.cos, t.sin),
          S |-> RotateRows(S1, best.p, best.q, t.cos, t.sin),
          V |-> RotateColumns(st.V, best.p, best.q, t.cos, t.sin),
          iter |-> st.iter + 1] :
            S1 \in {RotateColumns(st.S, best.p, best.q, t.cos, t.sin)}} : TRUE

\* maxOffDiagonal < eps
Converged(S) == \E best \in {LargestOffDiagonal(S)} : BelowEps(best.maxOffDiagonal)

\* the loop as it would be without the cap on the iterations
LoopEndsConverged(st) == Converged(st.S)

\* the loop ends: iter has reached maxIterations, or the check for convergence
\* breaks out of it
LoopEnds(st) == st.iter >= MaxIterations \/ Converged(st.S)

\* S.DiagonalArray()
DiagonalArray(S) ==
    [i \in 1..(IF S.m < S.n THEN S.m ELSE S.n) |-> S.rows[i][i]]

RECURSIVE RunsExactly(_)
\* every rotation of the run from st on is a rotation of the model
RunsExactly(st) ==
    IF st.iter >= MaxIterations \/ Converged(st.S) THEN TRUE
    ELSE \E best \in {LargestOffDiagonal(st.S)} : \E t \in {Theta(st.S, best)} :
            t.exact /\ RunsExactly(JacobiRotation(st, best, t))

MaxEntry == 1

\* all matrices of at most 2 rows and columns with small whole entries
SmallMatrices ==
    UNION {{[m |-> m, n |-> n, rows |-> [i \in 1..m |-> [j \in 1..n |-> QInt(f[<<i, j>>])]]] :
               f \in [(1..m) \X (1..n) -> (-MaxEntry)..MaxEntry]} :
           <<m, n>> \in {<<1, 1>>, <<1, 2>>, <<2, 1>>, <<2, 2>>}}

\* the identity of the test, a symmetric matrix with a rational rotation, and
\* matrices of three rows or columns
NamedMatrices ==
    {Identity(3),
     MatrixFromRows(<< <<QInt(0), QInt(12)>>, <<QInt(12), QInt(7)>> >>),
     MatrixFromRows(<< <<QInt(0), QInt(1), QInt(0)>>, <<QInt(1), QInt(0), QInt(0)>>,
                       <<QInt(0), QInt(0), QInt(2)>> >>),
     MatrixFromRows(<< <<QInt(1), QInt(1), QInt(0)>>, <<QInt(-1), QInt(1), QInt(0)>> >>),
     MatrixFromRows(<< <<QInt(1), QInt(1)>>, <<QInt(1), QInt(1)>>, <<QInt(0), QInt(3)>> >>)}

InitSVD ==
    \E A \in SmallMatrices \cup NamedMatrices :
        /\ RunsExactly(JacobiStart(A))
        /\ op = "SVD"
        /\ args = [this |-> A]
        /\ out = <<>>
        /\ heap = [pc |-> "call"]

\* the call: U, S and V are set up
CallSVD ==
    /\ op = "SVD"
    /\ heap.pc = "call"
    /\ heap' = [pc |-> "loop", st |-> JacobiStart(args.this)]
    /\ UNCHANGED <<op, args, out>>

\* an iteration of the loop that rotates
IterateSVD ==
    /\ op = "SVD"
    /\ heap.pc = "loop"
    /\ ~LoopEnds(heap.st)
    /\ \E best \in {LargestOffDiagonal(heap.st.S)} : \E t \in {Theta(heap.st.S, best)} :
        /\ t.exact
        /\ heap' = [heap EXCEPT !.st = JacobiRotation(heap.st, best, t)]
    /\ UNCHANGED <<op, args, out>>

\* the loop is left and { U, S: S.DiagonalArray(), V } is returned
ReturnSVD ==
    /\ op = "SVD"
    /\ heap.pc = "loop"
    /\ LoopEnds(heap.st)
    /\ out' = <<Ok([U |-> heap.st.U, S |-> DiagonalArray(heap.st.S), V |-> heap.st.V])>>
    /\ heap' = [heap EXCEPT !.pc = "done"]
    /\ UNCHANGED <<op, args>>

NextSVD == CallSVD \/ IterateSVD \/ ReturnSVD

SpecSVD == InitSVD /\ [][NextSVD]_vars

\* a call that has begun goes on: each step of it is taken in the end
SpecSVDFair == SpecSVD /\ WF_vars(NextSVD)


----------------------------------------------------------------------------
(* Properties of the Jacobi SVD *)

SVDReturned == op = "SVD" /\ Len(out) = 1

\* the iterations made so far are at most maxIterations, and what is
\* returned is { U, S, V }, after the cap or on convergence
SVDBounded ==
    (op = "SVD" /\ heap.pc # "call") =>
        /\ heap.st.iter <= MaxIterations
        /\ SVDReturned =>
            /\ out[1].ok
            /\ DOMAIN out[1].val = {"U", "S", "V"}
            /\ heap.st.iter = MaxIterations \/ Converged(heap.st.S)

\* an iteration rotates only while the largest off-diagonal magnitude is not
\* below 1e-10
RotatesUnconverged ==
    (op = "SVD" /\ heap.pc = "loop" /\ heap'.pc = "loop") =>
        (~Converged(heap.st.S) /\ heap'.st.iter = heap.st.iter + 1)

\* C13: SVD terminates: it makes at most 100 iterations, rotates only while
\* the largest off-diagonal magnitude is at least 1e-10, and returns
\* { U, S, V } normally, after the cap as well
C13_SVDTerminates ==
    /\ []SVDBounded
    /\ [][RotatesUnconverged]_vars
    /\ <>SVDReturned

\* the cap has been reached without convergence, and SVD has returned
C13_CapReached ==
    /\ SVDReturned
    /\ out[1].ok
    /\ heap.st.iter = MaxIterations
    /\ ~Converged(heap.st.S)

\* SVD has returned after one rotation
C13_StoppedEarly ==
    SVDReturned /\ heap.st.iter = 1 /\ Converged(heap.st.S)


----------------------------------------------------------------------------
(* What SVD returns, as the test matchers read it *)

\* the rectangular diagonal m x n matrix of the singular values S
RectangularDiagonal(S, m, n) ==
    [m |-> m, n |-> n,
     rows |-> [i \in 1..m |-> [j \in 1..n |-> IF i = j THEN S[i] ELSE QZero]]]

\* U.Mult(S).Mult(V.Transpose())
Reconstructed(svd, m, n) ==
    Val(Mult(Val(Mult(svd.U, RectangularDiagonal(svd.S, m, n))), Transpose(svd.V)))

\* every entry of R is within 1e-3 of the entry of A
CloseToMatrix(R, A) ==
    /\ R.m = A.m /\ R.n = A.n
    /\ \A i \in 1..A.m, j \in 1..A.n :
        QLe(QAbs(QSub(R.rows[i][j], A.rows[i][j])), QFrac(1, 1000))

\* value >= 0 for every singular value
NonNegative(S) == \A i \in 1..Len(S) : QGe(S[i], QZero)

ReconstructsInput ==
    \E R \in {Reconstructed(out[1].val, args.this.m, args.this.n)} :
        CloseToMatrix(R, args.this)

\* C14: what SVD returns has non-negative singular values, and U*S*V^T is the
\* input within 1e-3 in every entry
C14_SVDDecomposes ==
    SVDReturned => (NonNegative(out[1].val.S) /\ ReconstructsInput)

\* SVD has returned a negative singular value
C14_NegativeSingularValue ==
    SVDReturned /\ ~NonNegative(out[1].val.S)

\* SVD has returned at once, and its product is not the input
C14_NotReconstructed ==
    SVDReturned /\ heap.st.iter = 0 /\ ~ReconstructsInput

\* SVD has returned non-negative singular values whose product is the input
C14_Decomposed ==
    /\ SVDReturned /\ heap.st.iter > 0
    /\ NonNegative(out[1].val.S) /\ ReconstructsInput


----------------------------------------------------------------------------
(* Calls of SegmentFromPoints *)

\* the points with whole coordinates about the origin
SegmentGrid == {Point2(i, j) : i \in (-MaxCoord)..MaxCoord, j \in (-MaxCoord)..MaxCoord}

\* lists of two and of three points, in every order
InitSegmentFromPoints ==
    /\ op = "SegmentFromPoints"
    /\ \E n \in 2..3 : \E points \in ListsOf(SegmentGrid, n) : args = [points |-> points]
    /\ out = <<>>
    /\ heap = <<>>

CallSegmentFromPoints ==
    /\ op = "SegmentFromPoints"
    /\ out = <<>>
    /\ out' = <<SegmentFromPoints(args.points)>>
    /\ UNCHANGED <<op, args, heap>>

SpecSegment == InitSegmentFromPoints /\ [][CallSegmentFromPoints]_vars

SegmentCalled == op = "SegmentFromPoints" /\ Len(out) = 1

\* all points lie on one line
Collinear(points) ==
    \A i, j, k \in 1..Len(points) : Turn(points[i], points[j], points[k]) = 0

\* the two ends of a segment
EndsOf(segment) ==
    {[x |-> segment.x0, y |-> segment.y0], [x |-> segment.x1, y |-> segment.y1]}

\* C15: for collinear points SegmentFromPoints returns errorSize 0, below
\* 0.99, and a segment from one point of the set to another, along a diagonal
\* of the bounding box
C15_CollinearFitsExactly ==
    (SegmentCalled /\ Collinear(args.points)) =>
        /\ out[1].ok
        /\ QIsZero(DistanceSq(out[1].val.errorSize))
        /\ ErrorSizeBelow(out[1].val)
        /\ EndsOf(out[1].val.segment) \subseteq Range(args.points)
        /\ \A i \in 1..Len(args.points) :
            /\ QLe(out[1].val.segment.x0, args.points[i].x)
            /\ QLe(args.points[i].x, out[1].val.segment.x1)

\* collinear points on a falling line have been fitted by the second diagonal
C15_FallingLine ==
    /\ SegmentCalled /\ Collinear(args.points)
    /\ Len(args.points) = 3
    /\ QLt(out[1].val.segment.x0, out[1].val.segment.x1)
    /\ QGt(out[1].val.segment.y0, out[1].val.segment.y1)

\* points on a vertical line have been fitted
C15_VerticalLine ==
    /\ SegmentCalled /\ Collinear(args.points)
    /\ QEq(out[1].val.segment.x0, out[1].val.segment.x1)
    /\ QLt(out[1].val.segment.y0, out[1].val.segment.y1)

\* points on a horizontal line have been fitted
C15_HorizontalLine ==
    /\ SegmentCalled /\ Collinear(args.points)
    /\ QEq(out[1].val.segment.y0, out[1].val.segment.y1)
    /\ QLt(out[1].val.segment.x0, out[1].val.segment.x1)


----------------------------------------------------------------------------
(* The two arc conversions with their angles.  An angle is kept by its      *)
(* cosine and sine and the whole turns added to its principal value, which  *)
(* lies in (-pi, pi]; exact tells whether cosine and sine are numbers of    *)
(* the model.                                                               *)

\* Math.acos of the clamped quotient, negated when the cross product is negative
AngleOfCosine(c, cross) ==
    IF QIsNaN(c) THEN [exact |-> TRUE, cos |-> QNaN, sin |-> QNaN, turns |-> 0]
    ELSE CHOOSE ang \in
            {IF ~IsNumber(s) THEN [exact |-> FALSE]
             ELSE [exact |-> TRUE, cos |-> c,
                   sin |-> IF QLt(cross, QZero) THEN QNeg(s) ELSE s, turns |-> 0] :
                s \in {QSqrt(QSub(QOne, QSq(c)))}} : TRUE

\* vectorAngle(ux, uy, vx, vy) of Step 5
VectorAngle(ux, uy, vx, vy) ==
    CHOOSE ang \in
        {IF ~IsNumber(len) THEN [exact |-> FALSE]
         ELSE AngleOfCosine(QMax(QInt(-1), QMin(QOne, QDiv(dot, len))), cross) :
            dot \in {QAdd(QMul(ux, vx), QMul(uy, vy))},
            len \in {QSqrt(QMul(QAdd(QMul(ux, ux), QMul(uy, uy)),
                                QAdd(QMul(vx, vx), QMul(vy, vy))))},
            cross \in {QSub(QMul(ux, vy), QMul(uy, vx))}} : TRUE

\* ang > 0 and ang < 0 for a principal value
AnglePositive(ang) ==
    ~QIsNaN(ang.cos) /\ (QSign(ang.sin) > 0 \/ (QIsZero(ang.sin) /\ QSign(ang.cos) < 0))
AngleNegative(ang) == ~QIsNaN(ang.cos) /\ QSign(ang.sin) < 0

\* deltaTheta as vectorAngle returns it
PrincipalAngle(ang, fs) == ang

\* deltaTheta moved by a whole turn to the side the sweep flag asks for; the
\* remainders by 2 pi that follow leave theta1 and deltaTheta as they are,
\* both being less than a whole turn in magnitude
SweepAngle(ang, fs) ==
    IF ~ang.exact THEN ang
    ELSE IF fs = 0 /\ AnglePositive(ang) THEN [ang EXCEPT !.turns = -1]
    ELSE IF fs # 0 /\ AngleNegative(ang) THEN [ang EXCEPT !.turns = 1]
    ELSE ang

\* Step 5: theta1 and deltaTheta from the primed point p, the radii r and the
\* primed centre c
ArcAngles(p, r, c, fs) ==
    CHOOSE angles \in
        {[theta1 |-> VectorAngle(QOne, QZero, v1x, v1y),
          deltaTheta |-> SweepAngle(VectorAngle(v1x, v1y, v2x, v2y), fs)] :
            v1x \in {QDiv(QSub(p.x1p, c.cxp), r.rx)},
            v1y \in {QDiv(QSub(p.y1p, c.cyp), r.ry)},
            v2x \in {QDiv(QSub(QNeg(p.x1p), c.cxp), r.rx)},
            v2y \in {QDiv(QSub(QNeg(p.y1p), c.cyp), r.ry)}} : TRUE

\* Steps 2 to 5 on the primed point p: what arcEndpointToCenterParameters
\* returns, theta1 and deltaTheta included
CentreWithAngles(x1, y1, phi, fs, x2, y2, p, r, c) ==
    CHOOSE el \in
        {[cx |-> form.cx, cy |-> form.cy, rx |-> form.rx, ry |-> form.ry, phi |-> form.phi,
          theta1 |-> angles.theta1, deltaTheta |-> angles.deltaTheta] :
            form \in {CentreForm(x1, y1, x2, y2, r, phi, c)},
            angles \in {ArcAngles(p, r, c, fs)}} : TRUE

EndpointToCenter(x1, y1, rx, ry, phi, fa, fs, x2, y2) ==
    CHOOSE el \in
        UNION {UNION {{CentreWithAngles(x1, y1, phi, fs, x2, y2, p, r, c) :
                          c \in {PrimedCentre(p, r, fa, fs)}} :
                         r \in {CorrectedRadii(p, rx, ry)}} :
                  p \in {PrimedPoint(x1, y1, x2, y2)}} : TRUE

\* Math.abs(deltaTheta) > Math.PI
ExceedsHalfTurn(ang) ==
    /\ ~QIsNaN(ang.cos)
    /\ \/ ang.turns = 1
       \/ ang.turns = -1 /\ ~(QIsZero(ang.sin) /\ QSign(ang.cos) < 0)

\* deltaTheta >= 0
NotNegative(ang) ==
    /\ ~QIsNaN(ang.cos)
    /\ \/ ang.turns = 1
       \/ ang.turns = 0 /\ QSign(ang.sin) >= 0

\* arcCenterToEndpointParameters for phi = 0, with the end points: the cosine
\* and sine of theta1 + deltaTheta are those of the sum of the two angles
CenterToEndpoint(cx, cy, rx, ry, phi, theta1, deltaTheta) ==
    LET cosPhi == QOne
        sinPhi == QZero
        x1p == QMul(rx, theta1.cos)
        y1p == QMul(ry, theta1.sin)
        x2p == QMul(rx, QSub(QMul(theta1.cos, deltaTheta.cos), QMul(theta1.sin, deltaTheta.sin)))
        y2p == QMul(ry, QAdd(QMul(theta1.sin, deltaTheta.cos), QMul(theta1.cos, deltaTheta.sin)))
    IN  [x1 |-> QAdd(QSub(QMul(cosPhi, x1p), QMul(sinPhi, y1p)), cx),
         y1 |-> QAdd(QAdd(QMul(sinPhi, x1p), QMul(cosPhi, y1p)), cy),
         x2 |-> QAdd(QSub(QMul(cosPhi, x2p), QMul(sinPhi, y2p)), cx),
         y2 |-> QAdd(QAdd(QMul(sinPhi, x2p), QMul(cosPhi, y2p)), cy),
         fa |-> IF ExceedsHalfTurn(deltaTheta) THEN 1 ELSE 0,
         fs |-> IF NotNegative(deltaTheta) THEN 1 ELSE 0]

----------------------------------------------------------------------------
(* Calls of the two arc conversions, one after the other *)

MaxRadius == 2

\* lambda of Step 2 from the primed point p
Lambda(p, rx, ry) == QAdd(QDiv(QSq(p.x1p), QSq(rx)), QDiv(QSq(p.y1p), QSq(ry)))

\* lambda for the arc a
LambdaOf(a) ==
    CHOOSE lambda \in {Lambda(p, a.rx, a.ry) : p \in {PrimedPoint(a.x1, a.y1, a.x2, a.y2)}} : TRUE

\* the root under coef for the arc a with primed point p and radii r
RootOfRatio(p, r) ==
    CHOOSE root \in
        {QSqrt(IF QLt(sq, QZero) THEN QZero ELSE sq) :
            sq \in {RatioOfSquares(QSq(r.rx), QSq(r.ry), QSq(p.x1p), QSq(p.y1p))}} : TRUE

\* every root taken on the way is a number of the model
ExactArc(a) ==
    \E p \in {PrimedPoint(a.x1, a.y1, a.x2, a.y2)} :
        /\ QGt(Lambda(p, a.rx, a.ry), QOne) => IsNumber(QSqrt(Lambda(p, a.rx, a.ry)))
        /\ IsNumber(RootOfRatio(p, CorrectedRadii(p, a.rx, a.ry)))
        /\ \E el \in {EndpointToCenter(a.x1, a.y1, a.rx, a.ry, a.phi, a.fa, a.fs, a.x2, a.y2)} :
            el.theta1.exact /\ el.deltaTheta.exact

\* arcs from a point of the grid to a point about the origin, with whole
\* radii and every pair of flags
InitArcConversion ==
    /\ op = "arcConversion"
    /\ \E from \in GridPoints, to \in SegmentGrid :
        \E rx \in 1..MaxRadius, ry \in 1..MaxRadius, fa \in 0..1, fs \in 0..1 :
            \E a \in {[x1 |-> from.x, y1 |-> from.y, rx |-> QInt(rx), ry |-> QInt(ry),
                       phi |-> QZero, fa |-> fa, fs |-> fs, x2 |-> to.x, y2 |-> to.y]} :
                ExactArc(a) /\ args = a
    /\ out = <<>>
    /\ heap = <<>>

CallArcEndpointToCenter ==
    /\ op = "arcConversion"
    /\ out = <<>>
    /\ out' = <<EndpointToCenter(args.x1, args.y1, args.rx, args.ry, args.phi,
                                 args.fa, args.fs, args.x2, args.y2)>>
    /\ UNCHANGED <<op, args, heap>>

\* the second conversion, on what the first returned
CallArcCenterToEndpoint ==
    /\ op = "arcConversion"
    /\ Len(out) = 1
    /\ out' = Append(out, CenterToEndpoint(out[1].cx, out[1].cy, out[1].rx, out[1].ry,
                                           out[1].phi, out[1].theta1, out[1].deltaTheta))
    /\ UNCHANGED <<op, args, heap>>

NextArcConversion == CallArcEndpointToCenter \/ CallArcCenterToEndpoint

SpecArcConversion == InitArcConversion /\ [][NextArcConversion]_vars

----------------------------------------------------------------------------
(* Properties of the arc conversions *)

ArcConverted == op = "arcConversion" /\ Len(out) = 2

DistinctEndpoints == args.x1 # args.x2 \/ args.y1 # args.y2

\* the end points and flags that came back are those given
CameBack ==
    out[2] = [x1 |-> args.x1, y1 |-> args.y1, x2 |-> args.x2, y2 |-> args.y2,
              fa |-> args.fa, fs |-> args.fs]

C16_HalfTurnFlagLost ==
    /\ ArcConverted /\ DistinctEndpoints /\ LambdaOf(args) = QOne
    /\ args.fa = 1 /\ out[2].fa = 0


----------------------------------------------------------------------------
(* Markup text.  A text is the sequence of its lines; a line is its         *)
(* indentation, the count of leading spaces, and what follows: a string     *)
(* emitted as it is, an opening or self-closing tag, or a closing tag.      *)
(* A string node is [string |-> s]; an element is [type, optionsList,       *)
(* children], children being an array [array |-> items], or Null when the   *)
(* element was built with none.                                             *)

IsString(node) == DOMAIN node = {"string"}

\* new node(type, spec, options, children): children that are no array are
\* wrapped in one, unless they are falsy (undefined, or the empty string);
\* optionsList is given as the constructor leaves it
node(type, optionsList, children) ==
    [type |-> type, optionsList |-> optionsList,
     children |-> IF IsNull(children) THEN Null
                  ELSE IF IsString(children)
                  THEN (IF children.string = "" THEN children
                        ELSE [array |-> <<children>>])
                  ELSE children]

\* if (node.children): an array, even an empty one, is truthy; undefined and
\* the empty string are not
HasChildren(n) == DOMAIN n.children = {"array"}

StringLine(depth, s) == [indent |-> 2 * depth, string |-> s]
OpenLine(depth, n) ==
    [indent |-> 2 * depth, open |-> n.type, attrs |-> n.optionsList,
     end |-> IF HasChildren(n) THEN ">" ELSE "/>"]
CloseLine(depth, n) == [indent |-> 2 * depth, close |-> n.type]

RECURSIVE textProcessor(_, _)
RECURSIVE ChildrenText(_, _, _)
\* textProcessor of src/svg-gen.js, as the lines of the text it returns
textProcessor(depth, n) ==
    IF IsString(n) THEN <<StringLine(depth, n.string)>>
    ELSE IF HasChildren(n)
    THEN <<OpenLine(depth, n)>> \o ChildrenText(depth + 1, n.children.array, 1)
            \o <<CloseLine(depth, n)>>
    ELSE <<OpenLine(depth, n)>>

\* node.children.forEach(child => text += textProcessor(depth + 1, child)),
\* from the k-th child on
ChildrenText(depth, children, k) ==
    IF k > Len(children) THEN <<>>
    ELSE textProcessor(depth, children[k]) \o ChildrenText(depth, children, k + 1)

RECURSIVE treeWalker(_, _)
RECURSIVE WalkChildren(_, _, _)
\* treeWalker of the build script with the open and close handlers of its
\* parseToText: after the children comes a line of the spacing and what
\* close returns, which is the empty string for a string and for an element
\* without children
treeWalker(n, depth) ==
    (IF IsString(n) THEN <<StringLine(depth, n.string)>> ELSE <<OpenLine(depth, n)>>)
    \o (IF ~IsString(n) /\ HasChildren(n) THEN WalkChildren(n.children.array, depth + 1, 1) ELSE <<>>)
    \o (IF ~IsString(n) /\ HasChildren(n) THEN <<CloseLine(depth, n)>>
        ELSE <<StringLine(depth, "")>>)

WalkChildren(children, depth, k) ==
    IF k > Len(children) THEN <<>>
    ELSE treeWalker(children[k], depth) \o WalkChildren(children, depth, k + 1)

\* the strings of white space among the strings of the model
WhiteSpace == {"", " "}

\* a line of nothing but white space
BlankLine(line) == "string" \in DOMAIN line /\ line.string \in WhiteSpace

RECURSIVE TrimEnd(_)
\* String.prototype.trim at the end of a text: blank lines go, and the
\* terminator of the last line left
TrimEnd(lines) ==
    IF lines = <<>> THEN lines
    ELSE IF BlankLine(lines[Len(lines)]) THEN TrimEnd(SubSeq(lines, 1, Len(lines) - 1))
    ELSE lines

RECURSIVE TrimStart(_)
\* trim at the start: blank lines go, and the indentation of the first line left
TrimStart(lines) ==
    IF lines = <<>> THEN lines
    ELSE IF BlankLine(lines[1]) THEN TrimStart(Tail(lines))
    ELSE <<[lines[1] EXCEPT !.indent = 0]>> \o Tail(lines)

\* parseToText of src/svg-gen.js
parseToText(n) == textProcessor(0, n)

\* parseToText of the build script
parseToTextWalker(n) == TrimStart(TrimEnd(treeWalker(n, 0)))

----------------------------------------------------------------------------
(* Calls of parseToText on trees built with svgGen *)

MaxChildren == 2

Str(s) == [string |-> s]

Attr(name, value) == [name |-> name, value |-> value]

\* what svg gets from its defaults
SvgDefaults ==
    <<Attr("width", "100"), Attr("height", "100"), Attr("viewBox", "0 0 100 100"),
      Attr("xmlns", "http://www.w3.org/2000/svg")>>

\* s.circle({ cx: 50, cy: 50, r: 40 })
Circle == node("circle", <<Attr("cx", "50"), Attr("cy", "50"), Attr("r", "40")>>, Null)

\* s.text({ x: 10, y: 20 }, string)
TextOf(s) == node("text", <<Attr("x", "10"), Attr("y", "20")>>, Str(s))

\* the lists of at most n members of S
ListsUpTo(S, n) == UNION {ListsOf(S, k) : k \in 0..n}

Leaves == {Str("A"), Str(""), Circle}

Inner == Leaves \cup {TextOf("A")} \cup {node("g", <<>>, [array |-> c]) : c \in ListsUpTo(Leaves, MaxChildren)}

\* the tree of the README
ReadmeTree ==
    node("svg", SvgDefaults,
         [array |-> <<TextOf("Hello, World!"), node("g", <<>>, [array |-> <<TextOf("A")>>]),
                      Circle>>])

\* the tree of the README, and svg with at most two children
Trees == {ReadmeTree} \cup {node("svg", SvgDefaults, [array |-> c]) : c \in ListsUpTo(Inner, 2)}

InitParseToText ==
    /\ op \in {"parseToText", "parseToTextWalker"}
    /\ \E tree \in Trees : args = [node |-> tree]
    /\ out = <<>>
    /\ heap = <<>>

CallParseToText ==
    /\ op = "parseToText"
    /\ out = <<>>
    /\ out' = <<parseToText(args.node)>>
    /\ UNCHANGED <<op, args, heap>>

CallParseToTextWalker ==
    /\ op = "parseToTextWalker"
    /\ out = <<>>
    /\ out' = <<parseToTextWalker(args.node)>>
    /\ UNCHANGED <<op, args, heap>>

NextText == CallParseToText \/ CallParseToTextWalker

SpecText == InitParseToText /\ [][NextText]_vars

----------------------------------------------------------------------------
(* Properties of the markup text *)

TextReturned == op \in {"parseToText", "parseToTextWalker"} /\ Len(out) = 1

RECURSIVE ReadmeLayout(_, _)
RECURSIVE LayoutOfChildren(_, _, _)
\* the layout of the README: one self-closing line for an element without
\* children; else the opening tag, the children two spaces deeper, and the
\* closing tag at the indentation of the opening one
ReadmeLayout(depth, n) ==
    IF IsString(n) THEN <<[indent |-> 2 * depth, string |-> n.string]>>
    ELSE IF HasChildren(n)
    THEN <<[indent |-> 2 * depth, open |-> n.type, attrs |-> n.optionsList, end |-> ">"]>>
            \o LayoutOfChildren(depth + 1, n.children.array, 1)
            \o <<[indent |-> 2 * depth, close |-> n.type]>>
    ELSE <<[indent |-> 2 * depth, open |-> n.type, attrs |-> n.optionsList, end |-> "/>"]>>

LayoutOfChildren(depth, children, k) ==
    IF k > Len(children) THEN <<>>
    ELSE ReadmeLayout(depth, children[k]) \o LayoutOfChildren(depth, children, k + 1)

NoBlankLines(lines) == \A i \in 1..Len(lines) : ~BlankLine(lines[i])

\* the text of the README, line by line
ReadmeText ==
    <<[indent |-> 0, open |-> "svg", attrs |-> SvgDefaults, end |-> ">"],
      [indent |-> 2, open |-> "text", attrs |-> <<Attr("x", "10"), Attr("y", "20")>>, end |-> ">"],
      [indent |-> 4, string |-> "Hello, World!"],
      [indent |-> 2, close |-> "text"],
      [indent |-> 2, open |-> "g", attrs |-> <<>>, end |-> ">"],
      [indent |-> 4, open |-> "text", attrs |-> <<Attr("x", "10"), Attr("y", "20")>>, end |-> ">"],
      [indent |-> 6, string |-> "A"],
      [indent |-> 4, close |-> "text"],
      [indent |-> 2, close |-> "g"],
      [indent |-> 2, open |-> "circle",
       attrs |-> <<Attr("cx", "50"), Attr("cy", "50"), Attr("r", "40")>>, end |-> "/>"],
      [indent |-> 0, close |-> "svg"]>>

\* C17: the text parseToText returns is the layout of the README and has no
\* blank or whitespace-only line
C17_ReadmeLayout ==
    TextReturned => (out[1] = ReadmeLayout(0, args.node) /\ NoBlankLines(out[1]))

\* the tree of the README has gone through the walker, and the text has
\* lines of white space only
C17_WalkerBlankLines ==
    /\ TextReturned /\ op = "parseToTextWalker"
    /\ args.node = ReadmeTree
    /\ out[1] # ReadmeText
    /\ ~NoBlankLines(out[1])

\* the tree of the README has gone through textProcessor, and the text is
\* that of the README
C17_ReadmeExample ==
    /\ TextReturned /\ op = "parseToText"
    /\ args.node = ReadmeTree
    /\ out[1] = ReadmeText

\* textProcessor keeps to the layout on every tree
C17_ProcessorLayout ==
    (TextReturned /\ op = "parseToText") => out[1] = ReadmeLayout(0, args.node)

\* textProcessor has emitted an empty string child as a line of spaces
C17_ProcessorBlankLine ==
    /\ TextReturned /\ op = "parseToText"
    /\ ~NoBlankLines(out[1])


----------------------------------------------------------------------------
(* Calls of QuadraticRoots *)

MaxCoef == 2

InitQuadraticRoots ==
    /\ op = "QuadraticRoots"
    /\ \E a \in (-MaxCoef)..MaxCoef, b \in (-MaxCoef)..MaxCoef, c \in (-MaxCoef)..MaxCoef :
        args = [a |-> QInt(a), b |-> QInt(b), c |-> QInt(c)]
    /\ out = <<>>
    /\ heap = <<>>

\* the call with assumeRealRoots left at its default
CallQuadraticRoots ==
    /\ op = "QuadraticRoots"
    /\ out = <<>>
    /\ out' = <<QuadraticRoots(args.a, args.b, args.c, FALSE)>>
    /\ UNCHANGED <<op, args, heap>>

SpecRoots == InitQuadraticRoots /\ [][CallQuadraticRoots]_vars

RootsCalled == op = "QuadraticRoots" /\ Len(out) = 1

Discriminant == QSub(QSq(args.b), QMul(QInt(4), QMul(args.a, args.c)))

\* x is finite and a x^2 + b x + c = 0; a root kept as an expression is taken
\* to be one
IsRealRoot(x) ==
    \/ IsOpaque(x)
    \/ /\ QIsFinite(x)
       /\ QIsZero(QAdd(QAdd(QMul(args.a, QSq(x)), QMul(args.b, x)), args.c))

\* C18: for a # 0 QuadraticRoots returns no element when the discriminant is
\* negative, and else two finite real roots in ascending order
C18_TwoFiniteRootsAscending ==
    (RootsCalled /\ ~QIsZero(args.a)) =>
        IF QLt(Discriminant, QZero) THEN out[1] = <<>>
        ELSE /\ Len(out[1]) = 2
             /\ IsRealRoot(out[1][1]) /\ IsRealRoot(out[1][2])
             /\ IsOpaque(out[1][1]) \/ QLe(out[1][1], out[1][2])

\* a x^2 = 0 has been solved, and the second element returned is NaN
C18_NaNForDoubleRootAtZero ==
    /\ RootsCalled /\ ~QIsZero(args.a)
    /\ QIsZero(args.b) /\ QIsZero(args.c)
    /\ Len(out[1]) = 2 /\ QIsNaN(out[1][2])

\* the claim but for b = c = 0
C18_HoldsButAtZero ==
    (RootsCalled /\ ~QIsZero(args.a) /\ ~(QIsZero(args.b) /\ QIsZero(args.c))) =>
        IF QLt(Discriminant, QZero) THEN out[1] = <<>>
        ELSE /\ Len(out[1]) = 2
             /\ IsRealRoot(out[1][1]) /\ IsRealRoot(out[1][2])
             /\ IsOpaque(out[1][1]) \/ QLe(out[1][1], out[1][2])

\* a double root away from zero has come back twice
C18_DoubleRootTwice ==
    /\ RootsCalled /\ ~QIsZero(args.a) /\ ~QIsZero(args.b)
    /\ QIsZero(Discriminant)
    /\ Len(out[1]) = 2 /\ out[1][1] = out[1][2] /\ IsRealRoot(out[1][1])


----------------------------------------------------------------------------
(* Calls of Transpose, and of Transpose on what it returned *)

InitTranspose ==
    /\ op = "Transpose"
    /\ \E A \in Matrices \cup SmallMatrices : args = [this |-> A]
    /\ out = <<>>
    /\ heap = <<>>

CallTranspose ==
    /\ op = "Transpose"
    /\ out = <<>>
    /\ out' = <<Transpose(args.this)>>
    /\ UNCHANGED <<op, args, heap>>

CallTransposeAgain ==
    /\ op = "Transpose"
    /\ Len(out) = 1
    /\ out' = Append(out, Transpose(out[1]))
    /\ UNCHANGED <<op, args, heap>>

NextTranspose == CallTranspose \/ CallTransposeAgain

SpecTranspose == InitTranspose /\ [][NextTranspose]_vars

TransposeCalled == op = "Transpose" /\ Len(out) >= 1

\* C19: the transpose of an m x n matrix A is n x m with A[i][j] at row j,
\* column i, and the transpose of the transpose is A
C19_TransposeSwapsAndReturns ==
    TransposeCalled =>
        /\ out[1].m = args.this.n /\ out[1].n = args.this.m
        /\ Len(out[1].rows) = args.this.n
        /\ \A j \in 1..args.this.n :
            /\ Len(out[1].rows[j]) = args.this.m
            /\ \A i \in 1..args.this.m : out[1].rows[j][i] = args.this.rows[i][j]
        /\ Len(out) = 2 => out[2] = args.this

\* a matrix that is not square and not its own mirror has been transposed twice
C19_TransposedTwice ==
    /\ TransposeCalled /\ Len(out) = 2
    /\ args.this.m # args.this.n
    /\ args.this.rows[1][1] # args.this.rows[args.this.m][args.this.n]
    /\ out[2] = args.this


----------------------------------------------------------------------------
(* Calls of ArcWithPerspective under a translation within the XY plane *)

MaxShift == 1

\* the eye above the origin, and a transform that translates by (tx, ty, 0)
ShiftedPerspective(tx, ty) ==
    [eye |-> Vec3(0, 0, 2),
     transform |-> Translate(Identity(4), [vec |-> <<QInt(tx), QInt(ty), QZero>>])]

\* an arc from one quarter point of an ellipse about the origin to another,
\* with radii 1 and 2, under the flags that keep the origin its centre
InitArcTranslated ==
    \E rx \in {QOne, QInt(2)}, ry \in {QOne, QInt(2)},
       k0 \in QuarterTurns, k1 \in QuarterTurns, fa \in {0, 1}, fs \in {0, 1},
       tx \in (-MaxShift)..MaxShift, ty \in (-MaxShift)..MaxShift :
        \E p0 \in {PointOnEllipse(Point2(0, 0), rx, ry, k0)},
           p1 \in {PointOnEllipse(Point2(0, 0), rx, ry, k1)} :
            /\ k0 # k1
            /\ IsCentreOfArc(Point2(0, 0), p0, p1, rx, ry, fa, fs)
            /\ op = "ArcWithPerspective"
            /\ args = [cur |-> p0, av |-> <<rx, ry, QZero, fa, fs, p1.x, p1.y>>,
                       perspective |-> ShiftedPerspective(tx, ty)]
            /\ out = <<>>
            /\ heap = [av |-> args.av]

SpecArcTranslated == InitArcTranslated /\ [][CallArcWithPerspective]_vars

ArcReturned == ArcCalled /\ out[1].ok /\ "arc" \in DOMAIN out[1].val

\* C20: under a translation within the XY plane the arc that comes back has
\* the largeArc and sweep flags of the arc given
C20_FlagsKeptUnderTranslation ==
    ArcReturned =>
        /\ out[1].val.arc[4] = args.av[4]
        /\ out[1].val.arc[5] = args.av[5]

\* under a translation that moves the arc, a small arc has come back large
C20_SmallArcCameBackLarge ==
    /\ ArcReturned
    /\ args.perspective.transform # Identity(4)
    /\ args.av[4] = 0
    /\ out[1].val.arc[4] = 1

\* without translation the flags have come back as given
C20_FlagsKeptInPlace ==
    /\ ArcReturned
    /\ args.perspective.transform = Identity(4)
    /\ out[1].val.arc[4] = args.av[4]
    /\ out[1].val.arc[5] = args.av[5]

----------------------------------------------------------------------------
(* The clip half-plane of a perspective.  Arrays that may be null are the  *)
(* records ArrayOf(items), so that null and an array can be told apart.    *)

\* the square of the distance between two points; reading the length of a
\* null point throws
Distance2BetweenPoints(p0, p1) ==
    IF IsNull(p0) \/ IsNull(p1)
    THEN Throw("TypeError", "Cannot read properties of null (reading 'length')")
    ELSE LET d0 == p0.length
             d1 == p1.length
             maxDim == IF d0 > d1 THEN d0 ELSE d1
         IN  Ok(SumTo([i \in 1..maxDim |->
                        QSq(QSub(IF i <= d1 THEN p1.items[i] ELSE QZero,
                                 IF i <= d0 THEN p0.items[i] ELSE QZero))], maxDim))

\* where the line through p0 and p1 meets the plane, null when it is parallel
PointFromIntersectionOfLineAndPlane(p0, p1, plane) ==
    LET d == [i \in 1..3 |-> QSub(p1.items[i], p0.items[i])]
        n == plane.normal
        denom == Dot3(n, d)
    IN  IF BelowEps(QAbs(denom)) THEN Null
        ELSE LET t == QDiv(Dot3(n, [i \in 1..3 |-> QSub(plane.point[i], p0.items[i])]),
                           denom)
             IN  ArrayOf([i \in 1..3 |-> QAdd(p0.items[i], QMul(t, d[i]))])

\* the distance of a point from a plane: a number, or a quotient by the root
\* that is the length of the normal
DistanceFromPointToPlane(point, plane) ==
    LET n == plane.normal
        vectorToPlane == [i \in 1..3 |-> QSub(point[i], plane.point[i])]
    IN  DivRoot(QAbs(Dot3(vectorToPlane, n)), QSqrt(Dot3(n, n)))

\* the XY plane after the transform: the image of the origin and the cross
\* product of the images of the two axes
TransformedXYPlane(transform) ==
    LET O == Val(Mult(transform, ArrayOf(<<QZero, QZero, QZero, QOne>>)))
        X == Val(Mult(transform, ArrayOf(<<QOne, QZero, QZero, QOne>>)))
        Y == Val(Mult(transform, ArrayOf(<<QZero, QOne, QZero, QOne>>)))
        dX == [i \in 1..3 |-> QSub(X[i], O[i])]
        dY == [i \in 1..3 |-> QSub(Y[i], O[i])]
    IN  [point |-> <<O[1], O[2], O[3]>>, normal |-> Cross3(dX, dY)]

\* the points and the side, from the projected line, the test point beside it
\* and where the eye ray through the test point meets the two planes; each
\* value is bound once, as the member of a singleton
SideFromTestPoint(eyePoint, clipPlane, transformedXYPlane, perspectivePoints, pSide) ==
    CHOOSE r \in
        {IF ~d0.ok THEN d0
         ELSE IF ~d1.ok THEN d1
         ELSE Ok([points |-> ArrayOf(perspectivePoints),
                  side |-> IF QLt(d0.val, d1.val) THEN -side ELSE side])
         : d0 \in {Distance2BetweenPoints(eyePoint,
                       PointFromIntersectionOfLineAndPlane(eyePoint,
                           ArrayOf(<<pSide.x, pSide.y, QZero>>), clipPlane))},
           d1 \in {Distance2BetweenPoints(eyePoint,
                       PointFromIntersectionOfLineAndPlane(eyePoint,
                           ArrayOf(<<pSide.x, pSide.y, QZero>>), transformedXYPlane))},
           side \in {SideOfPointFromLine(perspectivePoints[1], perspectivePoints[2], pSide)}}
        : TRUE

\* the side of the half-plane, from the projected line
SideOfHalfPlane(eye, clipPlane, transformedXYPlane, perspectivePoints) ==
    CHOOSE r \in
        {SideFromTestPoint(ArrayOf(<<eye.x, eye.y, eye.z>>), clipPlane,
                           transformedXYPlane, perspectivePoints, pSide)
         : pSide \in {[x |-> QSub(perspectivePoints[1].x,
                                  QSub(perspectivePoints[2].y, perspectivePoints[1].y)),
                       y |-> QAdd(perspectivePoints[1].y,
                                  QSub(perspectivePoints[2].x, perspectivePoints[1].x))]}}
        : TRUE

\* the two points of the line, with 1 as their fourth coordinate, as columns
AffinePointsOfLine(intersectionLine) ==
    LET q == intersectionLine.point
        v == intersectionLine.direction
    IN  MatrixFromArrayOfVector(
            << <<q[1], q[2], q[3], QOne>>,
               <<QAdd(q[1], v[1]), QAdd(q[2], v[2]), QAdd(q[3], v[3]), QOne>> >>)

\* the half-plane with side -1 also for an eye as far from the clip plane as
\* from the shape plane
HalfPlaneNotFarther(eye, clipPlane, transformedXYPlane, intersectionLine) ==
    IF IsNull(intersectionLine)
    THEN CHOOSE r \in
            {Ok([points |-> Null, side |-> IF DistanceLe(d0, d1) THEN -1 ELSE 1])
             : d0 \in {DistanceFromPointToPlane(<<eye.x, eye.y, eye.z>>, clipPlane)},
               d1 \in {DistanceFromPointToPlane(<<eye.x, eye.y, eye.z>>,
                                                transformedXYPlane)}} : TRUE
    ELSE CHOOSE r \in
            {SideOfHalfPlane(eye, clipPlane, transformedXYPlane, perspectivePoints)
             : perspectivePoints \in
                 {Val(PerspectiveXYProjection(eye, affinePoints))
                  : affinePoints \in {AffinePointsOfLine(intersectionLine)}}} : TRUE

\* the half-plane once the line in which the two planes meet is known
HalfPlaneOfLine(eye, clipPlane, transformedXYPlane, intersectionLine) ==
    IF IsNull(intersectionLine)
    THEN CHOOSE r \in
            {Ok([points |-> Null, side |-> IF DistanceLt(d0, d1) THEN -1 ELSE 1])
             : d0 \in {DistanceFromPointToPlane(<<eye.x, eye.y, eye.z>>, clipPlane)},
               d1 \in {DistanceFromPointToPlane(<<eye.x, eye.y, eye.z>>,
                                                transformedXYPlane)}} : TRUE
    ELSE CHOOSE r \in
            {SideOfHalfPlane(eye, clipPlane, transformedXYPlane, perspectivePoints)
             : perspectivePoints \in
                 {Val(PerspectiveXYProjection(eye, affinePoints))
                  : affinePoints \in {AffinePointsOfLine(intersectionLine)}}} : TRUE

HalfPlaneOfPlanes(eye, clipPlane, transformedXYPlane) ==
    CHOOSE r \in
        {HalfPlaneOfLine(eye, clipPlane, transformedXYPlane, intersectionLine)
         : intersectionLine \in
             {LineFromIntersectionOfPlanes(clipPlane, transformedXYPlane)}} : TRUE

ClipXYHalfPlane(perspective) ==
    IF ~Mult(perspective.transform, ArrayOf(<<QZero, QZero, QZero, QOne>>)).ok
    THEN Mult(perspective.transform, ArrayOf(<<QZero, QZero, QZero, QOne>>))
    ELSE CHOOSE r \in
            {HalfPlaneOfPlanes(perspective.eye, perspective.clip.plane, xy)
             : xy \in {TransformedXYPlane(perspective.transform)}} : TRUE

\* the viewBox cut by the clip half-plane: null, or the array of its vertices
PolygonFromViewBoxWithPerspective(viewBox, perspective) ==
    LET clip == perspective.clip
        viewBoxVertices ==
            << [x |-> viewBox.x, y |-> viewBox.y],
               [x |-> QAdd(viewBox.x, viewBox.width), y |-> viewBox.y],
               [x |-> QAdd(viewBox.x, viewBox.width), y |-> QAdd(viewBox.y, viewBox.height)],
               [x |-> viewBox.x, y |-> QAdd(viewBox.y, viewBox.height)] >>
    IN  IF IsNull(clip) \/ IsNull(clip.plane) THEN Ok(Null)
        ELSE CHOOSE r \in
            {IF ~half.ok THEN half
             ELSE IF IsNull(half.val.points)
             THEN (IF half.val.side = 1 THEN Ok(ArrayOf(viewBoxVertices)) ELSE Ok(Null))
             ELSE Ok(ArrayOf(PolygonFromLineIntersectionPolygon(
                        half.val.points.items[1], half.val.points.items[2],
                        half.val.side, viewBoxVertices)))
             : half \in {ClipXYHalfPlane(perspective)}} : TRUE

\* the transforms of 4 rows and 4 columns among those of the projection calls
AffineTransforms == {T \in Transforms : T.m = 4 /\ T.n = 4}

\* the normals of the clip planes: along the axes and the diagonals, and none
ClipNormals == {<<QInt(i), QInt(j), QInt(k)>> : i \in {-1, 0, 1}, j \in {-1, 0, 1},
                                                 k \in {-1, 0, 1}}

ClipPlanes == {[point |-> q, normal |-> n] : q \in PlanePoints, n \in ClipNormals}

\* the direction of the line in which the clip plane meets the shape plane is
\* made of numbers of the model
ExactIntersection(clipPlane, transform) ==
    \E line \in {LineFromIntersectionOfPlanes(clipPlane, TransformedXYPlane(transform))} :
        IF IsNull(line) THEN TRUE ELSE \A i \in 1..3 : IsNumber(line.direction[i])

MaxBox == 2

ViewBoxes == {[x |-> QZero, y |-> QZero, width |-> QInt(w), height |-> QInt(MaxBox)] :
                w \in 1..MaxBox}

InitClipXYHalfPlane ==
    \E eye \in Eyes, T \in AffineTransforms, plane \in ClipPlanes :
        /\ ExactIntersection(plane, T)
        /\ op = "ClipXYHalfPlane"
        /\ args = [perspective |-> [eye |-> eye, transform |-> T,
                                    clip |-> [plane |-> plane]]]
        /\ out = <<>>
        /\ heap = <<>>

InitPolygonFromViewBoxWithPerspective ==
    \E eye \in TwoEyes, T \in AffineTransforms, viewBox \in ViewBoxes,
       clip \in {Null} \cup {[plane |-> plane] : plane \in ClipPlanes} :
        /\ IF IsNull(clip) THEN TRUE ELSE ExactIntersection(clip.plane, T)
        /\ op = "PolygonFromViewBoxWithPerspective"
        /\ args = [viewBox |-> viewBox,
                   perspective |-> [eye |-> eye, transform |-> T, clip |-> clip]]
        /\ out = <<>>
        /\ heap = <<>>

CallClipXYHalfPlane ==
    /\ op = "ClipXYHalfPlane"
    /\ out = <<>>
    /\ \E r \in {ClipXYHalfPlane(args.perspective)} : out' = <<r>>
    /\ UNCHANGED <<op, args, heap>>

CallPolygonFromViewBoxWithPerspective ==
    /\ op = "PolygonFromViewBoxWithPerspective"
    /\ out = <<>>
    /\ \E r \in {PolygonFromViewBoxWithPerspective(args.viewBox, args.perspective)} :
            out' = <<r>>
    /\ UNCHANGED <<op, args, heap>>

NextHalfPlane == CallClipXYHalfPlane \/ CallPolygonFromViewBoxWithPerspective

SpecHalfPlane ==
    (InitClipXYHalfPlane \/ InitPolygonFromViewBoxWithPerspective) /\ [][NextHalfPlane]_vars

HalfPlaneCalled == op = "ClipXYHalfPlane" /\ out # <<>>

\* the eye ray through the side test point is parallel to the plane
RayParallelTo(plane, perspective) ==
    \E xy \in {TransformedXYPlane(perspective.transform)} :
    \E line \in {LineFromIntersectionOfPlanes(perspective.clip.plane, xy)} :
        IF IsNull(line) THEN FALSE
        ELSE \E pts \in {Val(PerspectiveXYProjection(perspective.eye,
                                                     AffinePointsOfLine(line)))} :
             \E pSide \in {<<QSub(pts[1].x, QSub(pts[2].y, pts[1].y)),
                             QAdd(pts[1].y, QSub(pts[2].x, pts[1].x)), QZero>>} :
                Dot3(plane.normal,
                     <<QSub(pSide[1], perspective.eye.x),
                       QSub(pSide[2], perspective.eye.y),
                       QSub(pSide[3], perspective.eye.z)>>) = QZero

\* C21: for every perspective with a clip plane and a 4x4 transform,
\* ClipXYHalfPlane returns its points and side and raises no error
C21_HalfPlaneNeverThrows ==
    HalfPlaneCalled =>
        /\ out[1].ok
        /\ out[1].val.side \in {-1, 0, 1}

\* the planes meet, the eye ray through the side test point is parallel to
\* the clip plane, and the call has ended in a TypeError
C21_ThrowsOnParallelRay ==
    /\ HalfPlaneCalled
    /\ RayParallelTo(args.perspective.clip.plane, args.perspective)
    /\ ~out[1].ok
    /\ out[1].err = "TypeError"

\* the planes are parallel and the call has returned no points and a side
C21_ParallelPlanesReturn ==
    /\ HalfPlaneCalled
    /\ out[1].ok
    /\ IsNull(out[1].val.points)

----------------------------------------------------------------------------
(* The clipper on lines through vertices of the polygon *)

\* the diagonal of the square of the design's example, as the test gives it
ExampleDiagonal == [p0 |-> Point2(0, 0), p1 |-> Point2(4, 4)]

\* the side given is -1 or 1, or 0 as in the test of the diagonal
InitClipThroughVertices ==
    \E poly \in Polygons, line \in ClipLines \cup {ExampleDiagonal},
       sideOfSidePoint \in {-1, 0, 1} :
        /\ op = "PolygonFromLineIntersectionPolygon"
        /\ args = [p0 |-> line.p0, p1 |-> line.p1,
                   sideOfSidePoint |-> sideOfSidePoint, poly |-> poly]
        /\ out = <<>>
        /\ heap = <<>>

SpecClipVertices ==
    InitClipThroughVertices /\ [][CallPolygonFromLineIntersectionPolygon]_vars

\* the vertices of the polygon that lie on the line
VerticesOnLine ==
    {v \in Range(args.poly) : SideOfPointFromLine(args.p0, args.p1, v) = 0}

\* how many times q occurs in the sequence r
Occurrences(q, r) == Cardinality({i \in 1..Len(r) : r[i] = q})

DiagonalCall ==
    /\ args.poly = ExampleSquare
    /\ args.p0 = ExampleDiagonal.p0 /\ args.p1 = ExampleDiagonal.p1

DiagonalResult == <<Point2(0, 0), Point2(4, 4), Point2(0, 4)>>

\* C22: when the clip line passes through vertices of the polygon the result
\* has no repeated point, each vertex on the line occurs in it exactly once,
\* every point of it lies on the kept side or on the line, and the diagonal
\* (0,0)-(4,4) of the square of side 4 yields (0,0), (4,4), (0,4)
C22_NoRepeatedPoints ==
    (ClipCalled /\ VerticesOnLine # {}) =>
        LET r == out[1].val
        IN  /\ \A i, j \in 1..Len(r) : r[i] = r[j] => i = j
            /\ \A v \in VerticesOnLine : Occurrences(v, r) = 1
            /\ \A i \in 1..Len(r) :
                  SideOfPointFromLine(args.p0, args.p1, r[i]) * args.sideOfSidePoint >= 0
            /\ (DiagonalCall /\ args.sideOfSidePoint \in {0, 1}) => r = DiagonalResult

\* the diagonal of the square, kept side +1: both ends of the diagonal have
\* come back three times each
C22_DiagonalEndsRepeated ==
    /\ ClipCalled
    /\ DiagonalCall
    /\ args.sideOfSidePoint = 1
    /\ Occurrences(Point2(0, 0), out[1].val) = 3
    /\ Occurrences(Point2(4, 4), out[1].val) = 3
    /\ Len(out[1].val) = 7

\* every point that came back lies on the kept side or on the line
C22_PointsOnKeptSide ==
    /\ ClipCalled
    /\ VerticesOnLine # {}
    /\ args.sideOfSidePoint # 0
    /\ \A i \in 1..Len(out[1].val) :
          SideOfPointFromLine(args.p0, args.p1, out[1].val[i]) * args.sideOfSidePoint >= 0

----------------------------------------------------------------------------
(* The element drawn for a circle or an ellipse under a perspective.  The  *)
(* element is the record of its tag and of the attributes the function     *)
(* sets; clipPath tells whether clip-path was set, _clipP is the polygon   *)
(* it was made of.                                                         *)

\* setClipPath: clip-path is set when the polygon of the viewBox is not null
setClipPath(opts, perspective, renderContext) ==
    CHOOSE r \in
        {IF ~clipP.ok THEN clipP
         ELSE IF IsNull(clipP.val) THEN Ok(opts)
         ELSE Ok([k \in DOMAIN opts \cup {"clipPath", "_clipP"} |->
                    IF k = "clipPath" THEN TRUE
                    ELSE IF k = "_clipP" THEN clipP.val ELSE opts[k]])
         : clipP \in {PolygonFromViewBoxWithPerspective(renderContext.viewBox,
                                                        perspective)}} : TRUE

\* the element, from what EllipseWithPerspective returned
ElementOfProjection(projected, perspective, renderContext) ==
    IF ~projected.ok THEN projected
    ELSE IF ErrorSizeBelow(projected.val.line)
    THEN Ok([tag |-> "line",
             x1 |-> projected.val.line.segment.x0, y1 |-> projected.val.line.segment.y0,
             x2 |-> projected.val.line.segment.x1, y2 |-> projected.val.line.segment.y1])
    ELSE setClipPath([tag |-> "ellipse",
                      cx |-> projected.val.ellipse.cx, cy |-> projected.val.ellipse.cy,
                      rx |-> projected.val.ellipse.rx, ry |-> projected.val.ellipse.ry,
                      theta |-> projected.val.ellipse.theta],
                     perspective, renderContext)

\* a circle is the ellipse of radii r and r
elementFromCircleOrEllipse(options, renderContext) ==
    LET perspective == renderContext.with_opts.perspective
        rx == IF "r" \in DOMAIN options THEN options.r ELSE options.rx
        ry == IF "r" \in DOMAIN options THEN options.r ELSE options.ry
    IN  CHOOSE r \in
            {ElementOfProjection(projected, perspective, renderContext)
             : projected \in {EllipseWithPerspective(options.cx, options.cy, rx, ry,
                                  perspective.eye, perspective.transform)}} : TRUE

\* a circle or an ellipse, by its centre and its radii
ShapeOptions ==
    {[cx |-> c.x, cy |-> c.y, r |-> r] : c \in EllipseCentres, r \in EllipseRadii}
        \cup {[cx |-> c.x, cy |-> c.y, rx |-> rx, ry |-> ry] :
                c \in EllipseCentres, rx \in EllipseRadii, ry \in EllipseRadii}

\* no clip at all, and the clip planes z = 3 and x = 0
ShapeClips ==
    {Null,
     [plane |-> [point |-> <<QInt(1), QInt(2), QInt(3)>>,
                 normal |-> <<QZero, QZero, QOne>>]],
     [plane |-> [point |-> <<QZero, QZero, QZero>>,
                 normal |-> <<QOne, QZero, QZero>>]]}

\* the views of the projection calls whose transform has 4 rows and 4 columns
ShapeViews == {view \in EllipseViews : view[2].m = 4 /\ view[2].n = 4}

InitElementFromCircleOrEllipse ==
    \E options \in ShapeOptions, view \in ShapeViews, clip \in ShapeClips :
        /\ op = "elementFromCircleOrEllipse"
        /\ args = [options |-> options,
                   renderContext |->
                       [viewBox |-> [x |-> QInt(-MaxBox), y |-> QInt(-MaxBox),
                                     width |-> QInt(2 * MaxBox), height |-> QInt(2 * MaxBox)],
                        with_opts |-> [perspective |->
                                          [eye |-> view[1], transform |-> view[2],
                                           clip |-> clip]]]]
        /\ out = <<>>
        /\ heap = <<>>

CallElementFromCircleOrEllipse ==
    /\ op = "elementFromCircleOrEllipse"
    /\ out = <<>>
    /\ \E r \in {elementFromCircleOrEllipse(args.options, args.renderContext)} :
            out' = <<r>>
    /\ UNCHANGED <<op, args, heap>>

SpecShape == InitElementFromCircleOrEllipse /\ [][CallElementFromCircleOrEllipse]_vars

ShapeCalled == op = "elementFromCircleOrEllipse" /\ out # <<>>

\* the shape is viewed face-on: the transform is the identity and the eye is
\* off the plane of the shape
FaceOn ==
    /\ args.renderContext.with_opts.perspective.transform = Identity(4)
    /\ ~QIsZero(args.renderContext.with_opts.perspective.eye.z)

\* C23: for an ellipse viewed face-on, whatever its radii rx > 0 and ry > 0,
\* errorSize is at least 0.99, so that elementFromCircleOrEllipse draws an
\* ellipse and never a line
C23_FaceOnDrawsEllipse ==
    (ShapeCalled /\ FaceOn) =>
        /\ out[1].ok
        /\ out[1].val.tag = "ellipse"

\* the circle of radius 1/2 about the origin, viewed face-on from (0, 0, 2),
\* has come back as a line along the diagonal of its bounding box
C23_SmallCircleDrawnAsLine ==
    /\ ShapeCalled /\ FaceOn
    /\ args.options = [cx |-> QZero, cy |-> QZero, r |-> QFrac(1, 2)]
    /\ args.renderContext.with_opts.perspective.eye = Vec3(0, 0, 2)
    /\ out[1].ok
    /\ out[1].val.tag = "line"
    /\ out[1].val.x1 = QFrac(-1, 2) /\ out[1].val.y1 = QFrac(-1, 2)
    /\ out[1].val.x2 = QFrac(1, 2) /\ out[1].val.y2 = QFrac(1, 2)

\* a face-on circle of radius 1 has come back as an ellipse
C23_UnitCircleDrawnAsEllipse ==
    /\ ShapeCalled /\ FaceOn
    /\ "r" \in DOMAIN args.options
    /\ args.options.r = QOne
    /\ out[1].ok
    /\ out[1].val.tag = "ellipse"

----------------------------------------------------------------------------
(* Parallel clip and shape planes *)

PolygonCalled == op = "PolygonFromViewBoxWithPerspective" /\ out # <<>>

\* the clip plane of the call is parallel to the shape plane of the call:
\* both normals are directions and their cross product is zero
ParallelPlanes ==
    IF IsNull(args.perspective.clip) THEN FALSE
    ELSE \E n1 \in {args.perspective.clip.plane.normal},
            n2 \in {TransformedXYPlane(args.perspective.transform).normal} :
            /\ \E i \in 1..3 : ~QIsZero(n1[i])
            /\ \E i \in 1..3 : ~QIsZero(n2[i])
            /\ \A i \in 1..3 : QIsZero(Cross3(n1, n2)[i])

\* the square of the perpendicular distance of point from the plane, as the
\* pair of its numerator and its denominator
PerpendicularSq(point, plane) ==
    <<QSq(Dot3(plane.normal, [i \in 1..3 |-> QSub(point[i], plane.point[i])])),
      Dot3(plane.normal, plane.normal)>>

\* the eye of the call is strictly closer to its clip plane than to its shape plane
EyeCloserToClip ==
    \E eye \in {<<args.perspective.eye.x, args.perspective.eye.y, args.perspective.eye.z>>} :
    \E d0 \in {PerpendicularSq(eye, args.perspective.clip.plane)},
       d1 \in {PerpendicularSq(eye, TransformedXYPlane(args.perspective.transform))} :
        QLt(QMul(d0[1], d1[2]), QMul(d1[1], d0[2]))

\* the corners of the viewBox of the call, in the order the design gives
ViewBoxCorners ==
    LET b == args.viewBox
    IN  << [x |-> b.x, y |-> b.y],
           [x |-> QAdd(b.x, b.width), y |-> b.y],
           [x |-> QAdd(b.x, b.width), y |-> QAdd(b.y, b.height)],
           [x |-> b.x, y |-> QAdd(b.y, b.height)] >>

C24_EyeAsFarSidePlus ==
    /\ HalfPlaneCalled /\ ParallelPlanes
    /\ \E eye \in {<<args.perspective.eye.x, args.perspective.eye.y, args.perspective.eye.z>>} :
          /\ ~QIsZero(PerpendicularSq(eye, args.perspective.clip.plane)[1])
          /\ PerpendicularSq(eye, args.perspective.clip.plane)
                = PerpendicularSq(eye, TransformedXYPlane(args.perspective.transform))
    /\ out[1].val.side = 1

\* parallel planes, side +1: the viewBox has come back whole
C24_ViewBoxWhole ==
    /\ PolygonCalled /\ ParallelPlanes /\ ~EyeCloserToClip
    /\ out[1].ok
    /\ out[1].val = ArrayOf(ViewBoxCorners)

----------------------------------------------------------------------------
(* The polygon of the viewBox with and without a clip plane *)

\* the perspective of the call has no clip plane
NoClipPlane ==
    IF IsNull(args.perspective.clip) THEN TRUE ELSE IsNull(args.perspective.clip.plane)

\* C25: PolygonFromViewBoxWithPerspective returns null if and only if the
\* perspective has no clip plane: with a clip plane, the whole shape plane on
\* the clipped side included, the result is not the null of the call without
\* clip, so that setClipPath sets clip-path
C25_NullOnlyWithoutClip ==
    PolygonCalled => ((out[1].ok /\ IsNull(out[1].val)) <=> NoClipPlane)

\* the clip plane z = 3 above the eye at (0, 0, 2), parallel to the shape
\* plane: the call has returned null as it does without clip
C25_NullWithClipPlane ==
    /\ PolygonCalled
    /\ ~NoClipPlane
    /\ ParallelPlanes /\ EyeCloserToClip
    /\ args.perspective.eye = Vec3(0, 0, 2)
    /\ args.perspective.transform = Identity(4)
    /\ args.perspective.clip.plane =
          [point |-> <<QInt(1), QInt(2), QInt(3)>>, normal |-> <<QZero, QZero, QOne>>]
    /\ out[1] = Ok(Null)

\* without clip plane the call has returned null
C25_NullWithoutClip ==
    /\ PolygonCalled
    /\ NoClipPlane
    /\ out[1] = Ok(Null)

\* a clip plane that meets the shape plane with every corner of the viewBox
\* on the clipped side: the call has returned an array without points
C25_EmptyPolygon ==
    /\ PolygonCalled
    /\ ~NoClipPlane
    /\ out[1].ok
    /\ out[1].val = ArrayOf(<<>>)

----------------------------------------------------------------------------
(* The subsystem solved for the point of the line of two planes *)

\* the cross product of the normals of the call
CrossOfCall == Cross3(args.plane1.normal, args.plane2.normal)

\* component i of the cross product is larger in magnitude than the two others
StrictlyLargest(i) ==
    \A j \in (1..3) \ {i} : QLt(QAbs(CrossOfCall[j]), QAbs(CrossOfCall[i]))

\* C26: whenever LineFromIntersectionOfPlanes does not return null, the
\* subsystem solved is the one whose determinant is the component of the cross
\* product of largest magnitude, the coordinate along that component being set
\* to 0, so that the subsystem is never singular: the point satisfies both
\* plane equations
C26_LargestComponentSolved ==
    (PlanesCalled /\ ~IsNull(out[1].val)) =>
        /\ \A i \in 1..3 : StrictlyLargest(i) => QIsZero(out[1].val.point[i])
        /\ Dot3(args.plane1.normal, out[1].val.point)
              = Dot3(args.plane1.normal, args.plane1.point)
        /\ Dot3(args.plane2.normal, out[1].val.point)
              = Dot3(args.plane2.normal, args.plane2.point)

\* the cross product is (-2, 1, 1): the point has been sought in the plane
\* z = 0 and lies off the plane x = 0
C26_SmallerComponentSolved ==
    /\ PlanesCalled
    /\ ~IsNull(out[1].val)
    /\ CrossOfCall = <<QInt(-2), QInt(1), QInt(1)>>
    /\ QIsZero(out[1].val.point[3])
    /\ ~QIsZero(out[1].val.point[1])

\* the point has been sought along the largest component and lies on both planes
C26_LargestSolved ==
    /\ PlanesCalled
    /\ ~IsNull(out[1].val)
    /\ StrictlyLargest(3)
    /\ QIsZero(out[1].val.point[3])
    /\ ~QIsZero(out[1].val.point[1])
    /\ Dot3(args.plane1.normal, out[1].val.point)
          = Dot3(args.plane1.normal, args.plane1.point)

----------------------------------------------------------------------------
(* The walk over the commands of a path.  A command is [op, args]; the     *)
(* walk yields the calls it makes of its callback, in order, each the      *)
(* record of the four arguments given.                                     *)

LowerCaseOps == {"m", "l", "h", "v", "c", "s", "q", "t", "a", "z"}

\* op.toUpperCase(), for the letters of the path commands
ToUpperCase(letter) ==
    IF letter \in LowerCaseOps
    THEN [m |-> "M", l |-> "L", h |-> "H", v |-> "V", c |-> "C", s |-> "S",
          q |-> "Q", t |-> "T", a |-> "A", z |-> "Z"][letter]
    ELSE letter

\* one turn of the loop: the next current point and absoluteArgs
WalkCommand(command, cur, subpathStart) ==
    LET given == command.args
        isRelative == command.op \in LowerCaseOps
        U == ToUpperCase(command.op)
        X(i) == IF isRelative THEN QAdd(cur.x, given[i]) ELSE given[i]
        Y(i) == IF isRelative THEN QAdd(cur.y, given[i]) ELSE given[i]
        k == IF U = "C" THEN 5 ELSE IF U \in {"S", "Q"} THEN 3 ELSE IF U = "A" THEN 6 ELSE 1
    IN  IF U \in {"M", "L", "C", "S", "Q", "T", "A"}
        THEN [next |-> [x |-> X(k), y |-> Y(k + 1)],
              absoluteArgs |-> [given EXCEPT ![k] = X(k), ![k + 1] = Y(k + 1)]]
        ELSE IF U = "H"
        THEN [next |-> [cur EXCEPT !.x = X(1)], absoluteArgs |-> [given EXCEPT ![1] = X(1)]]
        ELSE IF U = "V"
        THEN [next |-> [cur EXCEPT !.y = Y(1)], absoluteArgs |-> [given EXCEPT ![1] = Y(1)]]
        ELSE IF U = "Z"
        THEN [next |-> subpathStart, absoluteArgs |-> given]
        ELSE [next |-> cur, absoluteArgs |-> given]

RECURSIVE WalkFrom(_, _, _, _)
\* the calls made for the commands i..value.length; subpathStart is never
\* assigned by the loop
WalkFrom(value, i, cur, subpathStart) ==
    IF i > Len(value) THEN <<>>
    ELSE CHOOSE calls \in
            {<<[op |-> value[i].op, args |-> value[i].args,
                absoluteArgs |-> step.absoluteArgs, cur |-> cur]>>
                \o WalkFrom(value, i + 1, step.next, subpathStart)
             : step \in {WalkCommand(value[i], cur, subpathStart)}} : TRUE

walkSVGPathDArray(value) ==
    WalkFrom(value, 1, [x |-> QZero, y |-> QZero], [x |-> QZero, y |-> QZero])

\* the arguments 1..n, and those of an arc
NumberArgs(n) == [i \in 1..n |-> QInt(i)]
ArcArgs == <<QInt(2), QInt(1), QZero, 0, 1, QInt(3), QInt(4)>>

\* how many arguments a command takes
ArgCount(U) ==
    IF U = "C" THEN 6 ELSE IF U \in {"S", "Q"} THEN 4
    ELSE IF U \in {"H", "V"} THEN 1 ELSE IF U = "Z" THEN 0 ELSE 2

\* one command for each letter but the arcs
PlainCommands ==
    {[op |-> o, args |-> NumberArgs(ArgCount(ToUpperCase(o)))] :
        o \in {"M", "L", "H", "V", "C", "S", "Q", "T", "Z"} \cup (LowerCaseOps \ {"a"})}

PathCommands == PlainCommands \cup {[op |-> o, args |-> ArcArgs] : o \in {"A", "a"}}

MaxPath == 3

InitWalkSVGPathDArray ==
    \E n \in 0..MaxPath : \E value \in [1..n -> PathCommands] :
        /\ op = "walkSVGPathDArray"
        /\ args = [value |-> value]
        /\ out = <<>>
        /\ heap = <<>>

CallWalkSVGPathDArray ==
    /\ op = "walkSVGPathDArray"
    /\ out = <<>>
    /\ out' = <<Ok(walkSVGPathDArray(args.value))>>
    /\ UNCHANGED <<op, args, heap>>

----------------------------------------------------------------------------
(* The path rewritten under a perspective *)

\* pathCommandFromArc: a line to the end point, or the arc projected
pathCommandFromArc(cur, av, perspective) ==
    CHOOSE r \in
        {IF ~arc.ok THEN arc
         ELSE IF "line" \in DOMAIN arc.val
         THEN Ok([op |-> "L", args |-> <<arc.val.line.pt1.x, arc.val.line.pt1.y>>])
         ELSE Ok([op |-> "A", args |-> arc.val.arc])
         : arc \in {ArcWithPerspective(cur, av, perspective).ret}} : TRUE

\* av with the pair at k, k + 1 replaced by its projection
ProjectPair(r, k, perspective) ==
    IF ~r.ok THEN r
    ELSE CHOOSE w \in
            {IF ~pt.ok THEN pt
             ELSE Ok([r.val EXCEPT ![k] = pt.val.x, ![k + 1] = pt.val.y])
             : pt \in {PointWithPerspective(r.val[k], r.val[k + 1], perspective.eye,
                                            perspective.transform)}} : TRUE

\* the callback of elementFromPath: the command pushed onto pD
RewriteCommand(call, perspective) ==
    LET U == ToUpperCase(call.op)
        av == call.absoluteArgs
        cur == call.cur
        Command(r) == IF ~r.ok THEN r ELSE Ok([op |-> U, args |-> r.val])
    IN  IF U \in {"M", "L", "T"} THEN Command(ProjectPair(Ok(av), 1, perspective))
        ELSE IF U = "H"
        THEN CHOOSE w \in
                {IF ~pt.ok THEN pt ELSE Ok([op |-> U, args |-> [av EXCEPT ![1] = pt.val.x]])
                 : pt \in {PointWithPerspective(av[1], cur.y, perspective.eye,
                                                perspective.transform)}} : TRUE
        ELSE IF U = "V"
        THEN CHOOSE w \in
                {IF ~pt.ok THEN pt ELSE Ok([op |-> U, args |-> [av EXCEPT ![1] = pt.val.y]])
                 : pt \in {PointWithPerspective(cur.x, av[1], perspective.eye,
                                                perspective.transform)}} : TRUE
        ELSE IF U = "C"
        THEN Command(ProjectPair(ProjectPair(ProjectPair(Ok(av), 1, perspective),
                                             3, perspective), 5, perspective))
        ELSE IF U \in {"S", "Q"}
        THEN Command(ProjectPair(ProjectPair(Ok(av), 1, perspective), 3, perspective))
        ELSE IF U = "A" THEN pathCommandFromArc(cur, av, perspective)
        ELSE Ok([op |-> U, args |-> av])

RECURSIVE RewriteFrom(_, _, _)
\* pD for the calls i.. of the walk; the first error ends the walk
RewriteFrom(calls, i, perspective) ==
    IF i > Len(calls) THEN Ok(<<>>)
    ELSE CHOOSE w \in
            {IF ~command.ok THEN command
             ELSE CHOOSE v \in
                    {IF ~rest.ok THEN rest ELSE Ok(<<command.val>> \o rest.val)
                     : rest \in {RewriteFrom(calls, i + 1, perspective)}} : TRUE
             : command \in {RewriteCommand(calls[i], perspective)}} : TRUE

\* the path element: its d is pD, and clip-path is set by setClipPath
elementFromPath(options, renderContext) ==
    CHOOSE w \in
        {IF ~pD.ok THEN pD
         ELSE setClipPath([tag |-> "path", d |-> pD.val],
                          renderContext.with_opts.perspective, renderContext)
         : pD \in {RewriteFrom(walkSVGPathDArray(options.d), 1,
                               renderContext.with_opts.perspective)}} : TRUE

\* the identity, a quarter turn about Z and a move along z
PathTransforms ==
    {Identity(4),
     Rotate(Identity(4), [axes |-> "z", angle |-> 2, center |-> Null]),
     Translate(Identity(4), [vec |-> <<QZero, QZero, QOne>>])}

InitElementFromPath ==
    \E n \in 0..(MaxPath - 1) : \E d \in [1..n -> PlainCommands] :
    \E T \in PathTransforms, clip \in {Null, [plane |-> [point |-> <<QZero, QZero, QZero>>,
                                                        normal |-> <<QOne, QZero, QZero>>]]} :
        /\ op = "elementFromPath"
        /\ args = [options |-> [d |-> d],
                   renderContext |->
                       [viewBox |-> [x |-> QInt(-MaxBox), y |-> QInt(-MaxBox),
                                     width |-> QInt(2 * MaxBox), height |-> QInt(2 * MaxBox)],
                        with_opts |-> [perspective |->
                                          [eye |-> Vec3(0, 0, 2), transform |-> T,
                                           clip |-> clip]]]]
        /\ out = <<>>
        /\ heap = <<>>

CallElementFromPath ==
    /\ op = "elementFromPath"
    /\ out = <<>>
    /\ \E r \in {elementFromPath(args.options, args.renderContext)} : out' = <<r>>
    /\ UNCHANGED <<op, args, heap>>

NextPath == CallWalkSVGPathDArray \/ CallElementFromPath

SpecPath == (InitWalkSVGPathDArray \/ InitElementFromPath) /\ [][NextPath]_vars

----------------------------------------------------------------------------
(* Properties of the walk *)

WalkCalled == op = "walkSVGPathDArray" /\ out # <<>>

RECURSIVE PenAfter(_, _)
\* where the pen is after the first i commands of the path, and where its
\* subpath began, as the path language has it
PenAfter(value, i) ==
    IF i = 0 THEN [cur |-> [x |-> QZero, y |-> QZero], start |-> [x |-> QZero, y |-> QZero]]
    ELSE CHOOSE pen \in
            {LET U == ToUpperCase(value[i].op)
                 a == value[i].args
                 base == IF value[i].op \in LowerCaseOps THEN prev.cur
                         ELSE [x |-> QZero, y |-> QZero]
                 k == Len(a) - 1
             IN  IF U = "Z" THEN [prev EXCEPT !.cur = prev.start]
                 ELSE IF U = "H" THEN [prev EXCEPT !.cur.x = QAdd(base.x, a[1])]
                 ELSE IF U = "V" THEN [prev EXCEPT !.cur.y = QAdd(base.y, a[1])]
                 ELSE IF U = "M"
                 THEN [cur |-> [x |-> QAdd(base.x, a[1]), y |-> QAdd(base.y, a[2])],
                       start |-> [x |-> QAdd(base.x, a[1]), y |-> QAdd(base.y, a[2])]]
                 ELSE [prev EXCEPT !.cur = [x |-> QAdd(base.x, a[k]),
                                            y |-> QAdd(base.y, a[k + 1])]]
             : prev \in {PenAfter(value, i - 1)}} : TRUE

\* C27: the cur given to the callback is the absolute end point of the
\* command before, (0, 0) before the first; H changes only x and V only y;
\* after Z or z the current point is the start of the current subpath, the
\* absolute target of the most recent M or m
C27_CurrentPointTracked ==
    WalkCalled =>
        \A i \in 1..Len(args.value) :
            /\ out[1].val[i].op = args.value[i].op
            /\ out[1].val[i].cur = PenAfter(args.value, i - 1).cur

\* M 1 2 Z and a further command: the callback of that command has been
\* given (0, 0), not the start (1, 2) of the subpath
C27_OriginAfterClose ==
    /\ WalkCalled
    /\ Len(args.value) = 3
    /\ args.value[1] = [op |-> "M", args |-> NumberArgs(2)]
    /\ args.value[2].op = "Z"
    /\ out[1].val[3].cur = [x |-> QZero, y |-> QZero]
    /\ PenAfter(args.value, 2).cur = [x |-> QInt(1), y |-> QInt(2)]

\* a path without closepath: h has changed only x, v only y, and every
\* callback has been given the end point of the command before
C27_TrackedWithoutClose ==
    /\ WalkCalled
    /\ Len(args.value) = 3
    /\ args.value[1].op = "m" /\ args.value[2].op = "h" /\ args.value[3].op = "v"
    /\ out[1].val[2].cur = [x |-> QInt(1), y |-> QInt(2)]
    /\ out[1].val[3].cur = [x |-> QInt(2), y |-> QInt(2)]

----------------------------------------------------------------------------
(* The absolute arguments of the relative commands *)

\* the arguments of a relative command made those of its upper-case command
\* from the current point: every coordinate pair offset, the x of h, the y
\* of v, the end point of an arc
OffsetArgs(command, cur) ==
    LET given == command.args
        U == ToUpperCase(command.op)
    IN  IF U = "H" THEN <<QAdd(cur.x, given[1])>>
        ELSE IF U = "V" THEN <<QAdd(cur.y, given[1])>>
        ELSE IF U = "A"
        THEN [given EXCEPT ![6] = QAdd(cur.x, given[6]), ![7] = QAdd(cur.y, given[7])]
        ELSE [j \in 1..Len(given) |->
                IF j % 2 = 1 THEN QAdd(cur.x, given[j]) ELSE QAdd(cur.y, given[j])]

\* C28: for every relative command the absoluteArgs given to the callback
\* hold only absolute coordinates: every coordinate pair of the command, the
\* control points of c, s and q as well as the end point, is the relative
\* value offset by the current point
C28_AbsoluteArgsAbsolute ==
    WalkCalled =>
        \A i \in 1..Len(args.value) :
            args.value[i].op \in LowerCaseOps =>
                out[1].val[i].absoluteArgs = OffsetArgs(args.value[i], out[1].val[i].cur)

\* m 1 2 and then c 1 2 3 4 5 6: the end point has been offset to (6, 8), the
\* two control points have been left (1, 2) and (3, 4)
C28_ControlPointsRelative ==
    /\ WalkCalled
    /\ Len(args.value) = 2
    /\ args.value[1] = [op |-> "m", args |-> NumberArgs(2)]
    /\ args.value[2] = [op |-> "c", args |-> NumberArgs(6)]
    /\ out[1].val[2].cur = [x |-> QInt(1), y |-> QInt(2)]
    /\ out[1].val[2].absoluteArgs =
          <<QInt(1), QInt(2), QInt(3), QInt(4), QInt(6), QInt(8)>>

\* a path of relative commands without control points: every absoluteArgs
\* has been offset whole
C28_EndPointsOffset ==
    /\ WalkCalled
    /\ Len(args.value) = 3
    /\ args.value[1].op = "m" /\ args.value[2].op = "l" /\ args.value[3].op = "a"
    /\ \A i \in 1..3 :
          out[1].val[i].absoluteArgs = OffsetArgs(args.value[i], out[1].val[i].cur)
    /\ out[1].val[3].absoluteArgs[6] = QInt(5)

----------------------------------------------------------------------------
(* The end points of the path rewritten under a perspective *)

PathCalled == op = "elementFromPath" /\ out # <<>>

\* the perspective of the call
PathPerspective == args.renderContext.with_opts.perspective

\* the projection of the point p of the shape plane
ProjectionOf(p) ==
    PointWithPerspective(p.x, p.y, PathPerspective.eye, PathPerspective.transform).val

\* the commands of which the rewriting projects coordinates, arcs apart
ProjectedOps == {"M", "L", "C", "S", "Q", "T", "H", "V"}

\* command i of the path of the call ends, in the path emitted, at the
\* projection of its absolute end point
EndsAtProjection(i) ==
    \E reached \in {PenAfter(out[1].val.d, i).cur},
       projected \in {ProjectionOf(PenAfter(args.options.d, i).cur)} :
        /\ reached.x = projected.x
        /\ reached.y = projected.y

\* C29: for every command that elementFromPath rewrites, the end point
\* reached by the emitted command, tracked from the end point emitted before,
\* is the projection of the absolute end point of the input command: for M,
\* L, C, S, Q, T and also for H and V under transforms that change the other
\* coordinate, such as a quarter turn about Z
C29_EndPointsProjected ==
    (PathCalled /\ out[1].ok) =>
        \A i \in 1..Len(args.options.d) :
            ToUpperCase(args.options.d[i].op) \in ProjectedOps => EndsAtProjection(i)

\* H 1 from the origin under the quarter turn about Z: the end point (1, 0)
\* projects to (0, 1), the emitted H 0 has left the pen at (0, 0)
C29_HorizontalUnderQuarterTurn ==
    /\ PathCalled /\ out[1].ok
    /\ args.options.d = <<[op |-> "H", args |-> NumberArgs(1)]>>
    /\ PathPerspective.transform \notin {Identity(4),
                                         Translate(Identity(4), [vec |-> <<QZero, QZero, QOne>>])}
    /\ out[1].val.d = <<[op |-> "H", args |-> <<QZero>>]>>
    /\ ProjectionOf(PenAfter(args.options.d, 1).cur).x = QZero
    /\ ProjectionOf(PenAfter(args.options.d, 1).cur).y = QOne

\* M 1 2 and then a curve under the quarter turn about Z: both end at the
\* projections of their end points
C29_CurveUnderQuarterTurn ==
    /\ PathCalled /\ out[1].ok
    /\ Len(args.options.d) = 2
    /\ args.options.d[1].op = "M" /\ args.options.d[2].op = "c"
    /\ PathPerspective.transform \notin {Identity(4),
                                         Translate(Identity(4), [vec |-> <<QZero, QZero, QOne>>])}
    /\ EndsAtProjection(1) /\ EndsAtProjection(2)
    /\ PenAfter(out[1].val.d, 2).cur = [x |-> QInt(-8), y |-> QInt(6)]

\* rewriting without closepath under a transform that keeps the directions
\* of the axes: every command ends at the projection of its end point
C29_EndPointsProjectedAxesKept ==
    (/\ PathCalled /\ out[1].ok
     /\ PathPerspective.transform \in {Identity(4),
                                       Translate(Identity(4), [vec |-> <<QZero, QZero, QOne>>])}
     /\ \A i \in 1..Len(args.options.d) : args.options.d[i].op \notin {"Z", "z"}) =>
        \A i \in 1..Len(args.options.d) : EndsAtProjection(i)

\* m 1 2 and then h 1 under the move along z: the emitted H has kept the
\* projected y
C29_HorizontalUnderMove ==
    /\ PathCalled /\ out[1].ok
    /\ Len(args.options.d) = 2
    /\ args.options.d[1].op = "m" /\ args.options.d[2].op = "h"
    /\ PathPerspective.transform = Translate(Identity(4), [vec |-> <<QZero, QZero, QOne>>])
    /\ EndsAtProjection(2)
    /\ PenAfter(out[1].val.d, 2).cur = [x |-> QInt(4), y |-> QInt(4)]

----------------------------------------------------------------------------
(* With options handed down the tree.  A value of the With options is a    *)
(* number, an array [array |-> items] or an object [proto, props]: props   *)
(* is the record of its own enumerable properties, proto names the         *)
(* constructor whose prototype it has.                                     *)

Undefined == [undefined |-> TRUE]
IsUndefined(v) == DOMAIN v = {"undefined"}
IsJsArray(v) == DOMAIN v = {"array"}
IsJsObject(v) == DOMAIN v = {"proto", "props"}

\* an object literal
JsObject(props) == [proto |-> "Object", props |-> props]

\* v[key], undefined for a key v does not hold
PropertyOf(v, key) == IF key \in DOMAIN v.props THEN v.props[key] ELSE Undefined

\* the names of the rows of a Matrix among its properties
RowKeys == <<"0", "1", "2", "3">>

\* a 4x4 Matrix as the object it is: its rows pushed onto it, and length, m
\* and n assigned
MatrixObject(A) ==
    [proto |-> "Matrix",
     props |-> [key \in {"0", "1", "2", "3", "length", "m", "n"} |->
                  IF key = "length" THEN QInt(4)
                  ELSE IF key = "m" THEN QInt(A.m)
                  ELSE IF key = "n" THEN QInt(A.n)
                  ELSE [array |-> A.rows[CHOOSE i \in 1..4 : RowKeys[i] = key]]]]

RECURSIVE JsonCopy(_)
\* JSON.parse(JSON.stringify(v)): arrays stay arrays, every other object
\* comes back as a plain object of its own enumerable properties
JsonCopy(v) ==
    IF IsJsArray(v) THEN [array |-> [i \in 1..Len(v.array) |-> JsonCopy(v.array[i])]]
    ELSE IF IsJsObject(v)
    THEN [proto |-> "Object", props |-> [key \in DOMAIN v.props |-> JsonCopy(v.props[key])]]
    ELSE v

RECURSIVE deepMerge(_, _)
\* deepMerge, for a target that is no array: the With options of the calls
\* put objects where the options above them hold objects or nothing
deepMerge(target, source) ==
    IF ~IsJsObject(target) THEN source
    ELSE IF ~(IsJsObject(source) \/ IsJsArray(source)) THEN target
    ELSE [proto |-> "Object",
          props |-> [key \in DOMAIN target.props \cup DOMAIN source.props |->
                       IF key \notin DOMAIN source.props THEN target.props[key]
                       ELSE IF IsJsObject(source.props[key])
                       THEN deepMerge(PropertyOf(target, key), source.props[key])
                       ELSE source.props[key]]]

\* node.prototype.createRenderContext
createRenderContext(n, previousContext) ==
    LET newContext == [previousContext EXCEPT !.with_opts = JsonCopy(@)]
        viewed == IF n.type = "svg" /\ "viewBox" \in DOMAIN n.options
                  THEN [newContext EXCEPT !.viewBox = n.options.viewBox]
                  ELSE newContext
        merged == IF IsUndefined(n.with_opts) THEN viewed
                  ELSE [viewed EXCEPT !.with_opts = deepMerge(@, n.with_opts)]
    IN  [merged EXCEPT !.depth = @ + 1]

\* the perspective as the geometry reads it: eye.x, eye.y, eye.z, the rows
\* of transform, clip.plane
PerspectiveRead(perspective) ==
    [eye |-> perspective.props.eye.props,
     transform |-> [m |-> 4, n |-> 4,
                    rows |-> [i \in 1..4 |->
                                perspective.props.transform.props[RowKeys[i]].array]],
     clip |-> IF "clip" \in DOMAIN perspective.props
              THEN [plane |-> [point |-> perspective.props.clip.props.plane.props.point.array,
                               normal |-> perspective.props.clip.props.plane.props.normal.array]]
              ELSE Null]

\* node.prototype.withPerspective: circle and ellipse are handled by
\* elementFromCircleOrEllipse, which reads transform.m and transform.n,
\* calls transform.Mult and then reads eye.z
withPerspective(n, renderContext) ==
    IF n.type \notin {"circle", "ellipse"} THEN Ok(n)
    ELSE LET perspective == renderContext.with_opts.props.perspective
             transform == PropertyOf(perspective, "transform")
         IN  IF IsUndefined(transform)
             THEN Throw("TypeError", "Cannot read properties of undefined (reading 'm')")
             ELSE IF PropertyOf(transform, "m") # QInt(4) \/ PropertyOf(transform, "n") # QInt(4)
             THEN Throw("Error", "Transform matrix must be 4x4.")
             ELSE IF transform.proto # "Matrix"
             THEN Throw("TypeError", "transform.Mult is not a function")
             ELSE IF IsUndefined(PropertyOf(perspective, "eye"))
             THEN Throw("TypeError", "Cannot read properties of undefined (reading 'z')")
             ELSE elementFromCircleOrEllipse(n.options,
                      [viewBox |-> renderContext.viewBox,
                       with_opts |-> [perspective |-> PerspectiveRead(perspective)]])

\* node.prototype.renderForm
renderForm(n, renderContext) ==
    IF IsUndefined(renderContext.with_opts) THEN Ok(n)
    ELSE IF "perspective" \notin DOMAIN renderContext.with_opts.props THEN Ok(n)
    ELSE withPerspective(n, renderContext)

RECURSIVE treeWalkerRender(_, _, _)
RECURSIVE RenderChildren(_, _, _, _)
\* treeWalker, as the visits it makes: for each node, in the order of the
\* walk, where it is in the tree, the context made for it and what
\* renderForm gave; the visit in which renderForm throws is the last
treeWalkerRender(n, at, context) ==
    CHOOSE visits \in
        {CHOOSE v \in
            {<<[at |-> at, context |-> newContext, render |-> renderNode]>>
                \o (IF renderNode.ok /\ n.type \notin {"circle", "ellipse"}
                    THEN RenderChildren(n.children, 1, at, newContext)
                    ELSE <<>>)
             : renderNode \in {renderForm(n, newContext)}} : TRUE
         : newContext \in {createRenderContext(n, context)}} : TRUE

RenderChildren(children, k, at, context) ==
    IF k > Len(children) THEN <<>>
    ELSE CHOOSE visits \in
            {IF first[Len(first)].render.ok
             THEN first \o RenderChildren(children, k + 1, at, context)
             ELSE first
             : first \in {treeWalkerRender(children[k], Append(at, k), context)}} : TRUE

\* parseToText, as the visits of its walk from the context { depth: 0 }
parseToTextRender(n) ==
    treeWalkerRender(n, <<>>, [depth |-> 0, viewBox |-> Undefined, with_opts |-> Undefined])

----------------------------------------------------------------------------
(* Calls of parseToText on trees with With options *)

\* the eye { x: 0, y: 0, z: 2 } and the clip plane x = 0
EyeObject == JsObject([x |-> QZero, y |-> QZero, z |-> QInt(2)])
ClipObject ==
    JsObject([plane |-> JsObject([point |-> [array |-> <<QZero, QZero, QZero>>],
                                  normal |-> [array |-> <<QOne, QZero, QZero>>]])])

\* With({ perspective })
WithPerspective(perspective) == JsObject([perspective |-> JsObject(perspective)])

\* the With options of the calls: none; eye and transform; eye, clip and
\* transform; a transform alone; eye and clip alone
WithOptions ==
    {Undefined,
     WithPerspective([eye |-> EyeObject, transform |-> MatrixObject(Identity(4))]),
     WithPerspective([eye |-> EyeObject, clip |-> ClipObject,
                      transform |-> MatrixObject(Translate(Identity(4),
                                                           [vec |-> <<QZero, QZero, QOne>>]))]),
     WithPerspective([transform |-> MatrixObject(Identity(4))]),
     WithPerspective([eye |-> EyeObject, clip |-> ClipObject])}

\* a node of the tree and the With options given to it
WithNode(type, options, with_opts, children) ==
    [type |-> type, options |-> options, with_opts |-> with_opts, children |-> children]

UnitCircle(with_opts) ==
    WithNode("circle", [cx |-> QZero, cy |-> QZero, r |-> QOne], with_opts, <<>>)

MaxSiblings == 2

\* circles, and groups of one circle
WithInner ==
    {UnitCircle(w) : w \in WithOptions}
        \cup {WithNode("g", <<>>, w, <<UnitCircle(v)>>) :
                w \in WithOptions, v \in {Undefined, WithPerspective(
                                            [transform |-> MatrixObject(Identity(4))])}}

InitParseToTextRender ==
    \E k \in 1..MaxSiblings : \E children \in [1..k -> WithInner] : \E w \in WithOptions :
        /\ op = "parseToTextRender"
        /\ args = [node |-> WithNode("svg",
                                     [viewBox |-> [x |-> QInt(-MaxBox), y |-> QInt(-MaxBox),
                                                   width |-> QInt(2 * MaxBox),
                                                   height |-> QInt(2 * MaxBox)]],
                                     w, children)]
        /\ out = <<>>
        /\ heap = <<>>

CallParseToTextRender ==
    /\ op = "parseToTextRender"
    /\ out = <<>>
    /\ \E visits \in {parseToTextRender(args.node)} : out' = <<visits>>
    /\ UNCHANGED <<op, args, heap>>

SpecWith == InitParseToTextRender /\ [][CallParseToTextRender]_vars

----------------------------------------------------------------------------
(* Properties of the With options in force *)

TreeWalked == op = "parseToTextRender" /\ out # <<>>

RECURSIVE NodeAt(_, _)
\* the node at the end of the path at from n
NodeAt(n, at) == IF at = <<>> THEN n ELSE NodeAt(n.children[Head(at)], Tail(at))

RECURSIVE Inherit(_, _)
\* far overridden by near key by key: plain objects are overridden in their
\* keys, everything else as a whole
Inherit(far, near) ==
    IF IsUndefined(near) THEN far
    ELSE IF IsUndefined(far) THEN near
    ELSE IF IsJsObject(far) /\ IsJsObject(near) /\ far.proto = "Object" /\ near.proto = "Object"
    THEN JsObject([key \in DOMAIN far.props \cup DOMAIN near.props |->
                     IF key \notin DOMAIN near.props THEN far.props[key]
                     ELSE IF key \notin DOMAIN far.props THEN near.props[key]
                     ELSE Inherit(far.props[key], near.props[key])])
    ELSE near

RECURSIVE InForce(_, _, _)
\* the With options in force at the first k steps of the path at
InForce(tree, at, k) ==
    IF k = 0 THEN tree.with_opts
    ELSE Inherit(InForce(tree, at, k - 1), NodeAt(tree, SubSeq(at, 1, k)).with_opts)

\* the With options of the ancestors of the node at the end of at
FromAncestors(tree, at) ==
    IF at = <<>> THEN Undefined ELSE InForce(tree, at, Len(at) - 1)

RECURSIVE DataOf(_)
\* what a value holds, whatever made its objects
DataOf(v) ==
    IF IsJsArray(v) THEN [array |-> [i \in 1..Len(v.array) |-> DataOf(v.array[i])]]
    ELSE IF IsJsObject(v) THEN [props |-> [key \in DOMAIN v.props |-> DataOf(v.props[key])]]
    ELSE v

\* the same value, the constructors of its objects included
SameValue(v, w) == DOMAIN v = DOMAIN w /\ v = w

\* with_opts supplies an eye and a transform
SuppliesView(with_opts) ==
    IF IsUndefined(with_opts) THEN FALSE
    ELSE IF "perspective" \notin DOMAIN with_opts.props THEN FALSE
    ELSE {"eye", "transform"} \subseteq DOMAIN with_opts.props.perspective.props

\* visit v of the walk is of a node without With options of its own
NoWithOfItsOwn(v) == IsUndefined(NodeAt(args.node, v.at).with_opts)

\* C30: during parseToText a node with no With options of its own is
\* rendered under exactly the With options of its ancestors, nearer ones
\* overriding farther ones key by key: the perspective reaching its handler
\* has the eye, clip and transform supplied, the transform still a 4x4 Matrix
\* usable with Mult, so that rendering raises no error; and the With options
\* of a node never reach its siblings or its ancestors
C30_WithOptionsInherited ==
    TreeWalked =>
        \A i \in 1..Len(out[1]) :
            \E v \in {out[1][i]} :
                /\ NoWithOfItsOwn(v) =>
                      \E supplied \in {FromAncestors(args.node, v.at)} :
                          /\ SameValue(v.context.with_opts, supplied)
                          /\ SuppliesView(supplied) => v.render.ok
                /\ SameValue(DataOf(v.context.with_opts),
                             DataOf(InForce(args.node, v.at, Len(v.at))))

\* svg with eye and the identity as transform, and one circle without With
\* options: the circle has been given the transform as a plain object, and
\* its handler has thrown
C30_InheritedTransformNoMatrix ==
    /\ TreeWalked
    /\ args.node.with_opts =
          WithPerspective([eye |-> EyeObject, transform |-> MatrixObject(Identity(4))])
    /\ args.node.children = <<UnitCircle(Undefined)>>
    /\ Len(out[1]) = 2
    /\ out[1][2].at = <<1>>
    /\ out[1][2].context.with_opts.props.perspective.props.transform.proto = "Object"
    /\ out[1][2].context.with_opts.props.perspective.props.eye = EyeObject
    /\ out[1][2].render = Throw("TypeError", "transform.Mult is not a function")

\* svg with eye and clip, and one circle with a transform of its own: the
\* circle has been rendered under the eye and the clip of svg and its own
\* Matrix
C30_OwnTransformRendered ==
    /\ TreeWalked
    /\ args.node.with_opts = WithPerspective([eye |-> EyeObject, clip |-> ClipObject])
    /\ args.node.children =
          <<UnitCircle(WithPerspective([transform |-> MatrixObject(Identity(4))]))>>
    /\ Len(out[1]) = 2
    /\ out[1][2].context.with_opts.props.perspective.props.transform.proto = "Matrix"
    /\ out[1][2].context.with_opts.props.perspective.props.eye = EyeObject
    /\ out[1][2].context.with_opts.props.perspective.props.clip = ClipObject
    /\ out[1][2].render.ok
    /\ out[1][2].render.val.tag = "ellipse"

\* whatever made its objects, every node is given the data of the With
\* options of its ancestors and its own, and of no other node
C30_NoOptionsFromOtherNodes ==
    TreeWalked =>
        \A i \in 1..Len(out[1]) :
            SameValue(DataOf(out[1][i].context.with_opts),
                      DataOf(InForce(args.node, out[1][i].at, Len(out[1][i].at))))

\* two siblings, the first with a perspective of its own and the second
\* without With options under an svg without: the second has been given none
C30_SiblingWithoutOptions ==
    /\ TreeWalked
    /\ IsUndefined(args.node.with_opts)
    /\ Len(args.node.children) = 2
    /\ SuppliesView(args.node.children[1].with_opts)
    /\ args.node.children[1].type = "circle"
    /\ args.node.children[2] = UnitCircle(Undefined)
    /\ Len(out[1]) = 3
    /\ out[1][2].render.ok
    /\ IsUndefined(out[1][3].context.with_opts)

====
